---- MODULE Spec2Model ----
(***************************************************************************)
(* Expression trees over f64, the tree-walk evaluator, the arity analyzer  *)
(* and the JIT lowering/compilation driver of oxphys_numerics.             *)
(***************************************************************************)
EXTENDS Integers, Sequences, FiniteSets, TLC

\* The state of the compile-and-call machine (Spec).
VARIABLES tree, treeAlive, vars, handle, module, last, baseline, calls
\* The state of the batch evaluator (SpecBatch).
VARIABLES rows, batch
\* The last combinator applied and its operands (SpecBuild).
VARIABLES built
\* The threads that evaluate the shared tree (SpecShared).
VARIABLES threads
\* The list of variable names and the variable being initialized (SpecNames),
\* and the (name, index) pairs initialize has handed out (SpecRegistry).
VARIABLES existing_variables, variable, handed
\* The JITHelper of a compilation in progress (SpecSession).
VARIABLES session
\* The PyExpr of the binding shim and its evaluate_vec call (SpecPy).
VARIABLES pyexpr, run
\* The host the N-D function is compiled on, and what was declared (SpecHost).
VARIABLES host
\* An expression tagged Initialized or Uninitialized (SpecTagged).
VARIABLES tagged
\* A ScalarType operation, its operands and its result (SpecScalar).
VARIABLES scalar

jitVars == <<treeAlive, vars, handle, module, last, baseline, calls>>
batchVars == <<rows, batch>>
nameVars == <<existing_variables, variable, handed>>
\* What the compile-and-call machine leaves alone.
bindingVars == <<pyexpr, run>>
\* The variables of the machines defined after the batch evaluator's.
restVars == <<bindingVars, host, tagged, scalar>>
sideVars == <<batchVars, built, threads, nameVars, session, restVars>>
vars_all == <<tree, jitVars, sideVars>>

(***************************************************************************)
(* Bounds of the model.                                                    *)
(***************************************************************************)
\* Variable leaves use the indices 0 .. MaxVarIdx, and one large index.
MaxVarIdx == 2
\* The client calls a compiled function at most MaxCalls times.
MaxCalls == 2
\* The batch evaluator is given at most MaxRows rows.
MaxRows == 2
\* The combinators build trees of at most MaxDepth levels.
MaxDepth == 3
\* MaxThreads threads evaluate one shared tree.
MaxThreads == 2
\* The caller's list of existing variable names starts with at most
\* MaxExisting entries.
MaxExisting == 3
\* The large variable index: 2^29, the smallest index i > 0 with (i * 8) as i32 = 0.
BigIdx == 536870912

(***************************************************************************)
(* f64 values.  A value is a record [k, s, m, t]:                          *)
(*   k = "fin": the number s * m, an integer (s is the sign bit, so that   *)
(*              m = 0 with s = -1 is the negative zero);                   *)
(*   k = "inf": the infinity of sign s;   k = "nan": a NaN of sign bit s;  *)
(*   k = "sym": the correctly rounded result of the primitive t[1] on the  *)
(*              operands Tail(t), with the sign bit flipped when s = -1    *)
(*              (a finite value that is not an integer of the model);      *)
(*   k = "ptr" / "int": a pointer (m = byte offset from the base pointer   *)
(*              of the input array) or a machine integer m, held in an IR  *)
(*              value;  k = "unmapped": a memory cell that is not mapped.  *)
(***************************************************************************)
Fin(n) == [k |-> "fin", s |-> IF n < 0 THEN -1 ELSE 1, m |-> IF n < 0 THEN -n ELSE n, t |-> <<>>]
NegZero == [k |-> "fin", s |-> -1, m |-> 0, t |-> <<>>]
Inf(sg) == [k |-> "inf", s |-> sg, m |-> 0, t |-> <<>>]
NaN == [k |-> "nan", s |-> 1, m |-> 0, t |-> <<>>]
Sym1(op, a) == [k |-> "sym", s |-> 1, m |-> 0, t |-> <<op, a>>]
Sym2(op, a, b) == [k |-> "sym", s |-> 1, m |-> 0, t |-> <<op, a, b>>]
Ptr(off) == [k |-> "ptr", s |-> 1, m |-> off, t |-> <<>>]
IntV(n) == [k |-> "int", s |-> 1, m |-> n, t |-> <<>>]
Unmapped == [k |-> "unmapped", s |-> 1, m |-> 0, t |-> <<>>]

IsNaN(x) == x.k = "nan"
IsZero(x) == x.k = "fin" /\ x.m = 0
IsFloat(x) == x.k \in {"fin", "inf", "nan", "sym"}
Signed(x) == x.s * x.m

\* The integer square root of n when n is a perfect square, -1 otherwise.
ExactRoot(n) == IF \E r \in 0..n : r * r = n THEN CHOOSE r \in 0..n : r * r = n ELSE -1

\* IEEE-754 negation: the sign bit is flipped, whatever the value.
FNeg(x) == [x EXCEPT !.s = -x.s]

\* IEEE-754 addition, round to nearest.
FAdd(a, b) ==
    IF IsNaN(a) THEN a
    ELSE IF IsNaN(b) THEN b
    ELSE IF a.k = "inf" /\ b.k = "inf" THEN (IF a.s = b.s THEN a ELSE NaN)
    ELSE IF a.k = "inf" THEN a
    ELSE IF b.k = "inf" THEN b
    ELSE IF a.k = "sym" \/ b.k = "sym" THEN Sym2("fadd", a, b)
    ELSE IF Signed(a) + Signed(b) = 0
         THEN (IF IsZero(a) /\ IsZero(b) /\ a.s = -1 /\ b.s = -1 THEN NegZero ELSE Fin(0))
    ELSE Fin(Signed(a) + Signed(b))

\* IEEE-754 subtraction: a - b is a + (-b).
FSub(a, b) == IF IsNaN(b) /\ ~IsNaN(a) THEN b ELSE FAdd(a, FNeg(b))

\* IEEE-754 multiplication.
FMul(a, b) ==
    IF IsNaN(a) THEN a
    ELSE IF IsNaN(b) THEN b
    ELSE IF (a.k = "inf" /\ IsZero(b)) \/ (IsZero(a) /\ b.k = "inf") THEN NaN
    ELSE IF a.k = "inf" \/ b.k = "inf" THEN Inf(a.s * b.s)
    ELSE IF a.k = "sym" \/ b.k = "sym" THEN Sym2("fmul", a, b)
    ELSE [k |-> "fin", s |-> a.s * b.s, m |-> a.m * b.m, t |-> <<>>]

\* IEEE-754 division: x / 0 is an infinity or a NaN, never a failure.
FDiv(a, b) ==
    IF IsNaN(a) THEN a
    ELSE IF IsNaN(b) THEN b
    ELSE IF (a.k = "inf" /\ b.k = "inf") \/ (IsZero(a) /\ IsZero(b)) THEN NaN
    ELSE IF a.k = "inf" THEN Inf(a.s * b.s)
    ELSE IF b.k = "inf" THEN [k |-> "fin", s |-> a.s * b.s, m |-> 0, t |-> <<>>]
    ELSE IF a.k = "sym" \/ b.k = "sym" THEN Sym2("fdiv", a, b)
    ELSE IF b.m = 0 THEN Inf(a.s * b.s)
    ELSE IF a.m % b.m = 0 THEN [k |-> "fin", s |-> a.s * b.s, m |-> a.m \div b.m, t |-> <<>>]
    ELSE Sym2("fdiv", a, b)

\* IEEE-754 square root: NaN below zero, -0 for -0.
FSqrt(a) ==
    IF IsNaN(a) THEN a
    ELSE IF IsZero(a) THEN a
    ELSE IF a.k = "sym" THEN Sym1("sqrt", a)
    ELSE IF a.s = -1 THEN NaN
    ELSE IF a.k = "inf" THEN a
    ELSE IF ExactRoot(a.m) >= 0 THEN Fin(ExactRoot(a.m))
    ELSE Sym1("sqrt", a)

\* f64::sin, f64::cos, f64::exp, f64::ln of the host library.
FSin(a) ==
    IF IsNaN(a) THEN a
    ELSE IF a.k = "inf" THEN NaN
    ELSE IF IsZero(a) THEN a
    ELSE Sym1("sin", a)

FCos(a) ==
    IF IsNaN(a) THEN a
    ELSE IF a.k = "inf" THEN NaN
    ELSE IF IsZero(a) THEN Fin(1)
    ELSE Sym1("cos", a)

FExp(a) ==
    IF IsNaN(a) THEN a
    ELSE IF a.k = "inf" THEN (IF a.s = 1 THEN a ELSE Fin(0))
    ELSE IF IsZero(a) THEN Fin(1)
    ELSE Sym1("exp", a)

FLn(a) ==
    IF IsNaN(a) THEN a
    ELSE IF IsZero(a) THEN Inf(-1)
    ELSE IF a.k = "sym" THEN Sym1("ln", a)
    ELSE IF a.s = -1 THEN NaN
    ELSE IF a.k = "inf" THEN a
    ELSE IF a.m = 1 THEN Fin(0)
    ELSE Sym1("ln", a)

\* f64::powf(base, exponent).
FPow(a, b) ==
    IF IsZero(b) THEN Fin(1)
    ELSE IF a = Fin(1) THEN Fin(1)
    ELSE IF IsNaN(a) THEN a
    ELSE IF IsNaN(b) THEN b
    ELSE IF a.k = "fin" /\ b.k = "fin" /\ b.s = 1 /\ b.m <= 4 /\ a.m <= 16
         THEN [k |-> "fin", s |-> IF b.m % 2 = 0 THEN 1 ELSE a.s, m |-> a.m ^ b.m, t |-> <<>>]
    ELSE Sym2("powf", a, b)

\* f64::log(self, base) = self.ln() / base.ln().
FLog(x, base) == FDiv(FLn(x), FLn(base))

(***************************************************************************)
(* Expression trees.  A node is a record [tag, val, idx, kids]: a leaf     *)
(* Constant(val) or Variable(idx), a unary node with one child, a binary   *)
(* node with a left and a right child.                                     *)
(***************************************************************************)
UnaryTags == {"Negate", "Sqrt", "Sin", "Cos", "Exp", "Ln"}
BinaryTags == {"Add", "Subtract", "Multiply", "Frac", "Pow", "Log"}

Constant(v) == [tag |-> "Constant", val |-> v, idx |-> 0, kids |-> <<>>]
Variable(i) == [tag |-> "Variable", val |-> Fin(0), idx |-> i, kids |-> <<>>]
Unary(op, x) == [tag |-> op, val |-> Fin(0), idx |-> 0, kids |-> <<x>>]
Binary(op, l, r) == [tag |-> op, val |-> Fin(0), idx |-> 0, kids |-> <<l, r>>]

\* The operator sugar of Expr: +, -, *, / and unary minus.
add(self, other) == Binary("Add", self, other)
sub(self, other) == Binary("Subtract", self, other)
mul(self, other) == Binary("Multiply", self, other)
div(self, other) == Binary("Frac", self, other)
\* A unary minus that cancels against a negation.
neg_Folding(self) == IF self.tag = "Negate" THEN self.kids[1] ELSE Unary("Negate", self)
neg(self) == Unary("Negate", self)

\* The combinators of functions.rs.
sqrt(expr) == Unary("Sqrt", expr)
sin(expr) == Unary("Sin", expr)
cos(expr) == Unary("Cos", expr)
exp(expr) == Unary("Exp", expr)
ln(expr) == Unary("Ln", expr)
pow(base, exponent) == Binary("Pow", base, exponent)
\* functions.rs log(argument, base): BinaryNode::Log(argument, base).
log(argument, base) == Binary("Log", argument, base)
\* PyExpr::log(base, argument): BinaryNode::Log(base, argument).
PyExprLog(base, argument) == Binary("Log", base, argument)

IsLeaf(e) == e.tag \in {"Constant", "Variable"}
IsUnary(e) == e.tag \in UnaryTags
IsBinary(e) == e.tag \in BinaryTags

\* UnaryNode::inner, BinaryNode::left, BinaryNode::right.
inner(e) == e.kids[1]
left(e) == e.kids[1]
right(e) == e.kids[2]

(***************************************************************************)
(* The tree-walk evaluator.  The input vector is a record [len, at]: at[i] *)
(* is the element at index i for i < len.  An outcome is a value           *)
(* (st = "ok") or the panic of an out-of-bounds index (st = "panic", with  *)
(* the index idx that was out of bounds); reads lists the variable indices *)
(* in the order the walk read them.                                        *)
(***************************************************************************)
EvalOk(v, rd) == [st |-> "ok", val |-> v, idx |-> 0, reads |-> rd]
EvalPanic(i, rd) == [st |-> "panic", val |-> NaN, idx |-> i, reads |-> rd]

\* A leaf that reads 0.0 for a variable the vector does not hold.
LeafEvaluate_ZeroFill(e, v) ==
    IF e.tag = "Constant" THEN EvalOk(e.val, <<>>)
    ELSE IF e.idx < v.len THEN EvalOk(v.at[e.idx], <<e.idx>>)
    ELSE EvalOk(Fin(0), <<e.idx>>)

\* LeafNode::evaluate: variables[*idx] panics when idx >= variables.len().
LeafEvaluate(e, v) ==
    IF e.tag = "Constant" THEN EvalOk(e.val, <<>>)
    ELSE IF e.idx < v.len THEN EvalOk(v.at[e.idx], <<e.idx>>)
    ELSE EvalPanic(e.idx, <<e.idx>>)

\* A Negate arm that returns the negative of the magnitude.
UnaryValue_NegatedMagnitude(op, x) ==
    CASE op = "Negate" -> [x EXCEPT !.s = -1]
      [] op = "Sqrt" -> FSqrt(x)
      [] op = "Sin" -> FSin(x)
      [] op = "Cos" -> FCos(x)
      [] op = "Exp" -> FExp(x)
      [] op = "Ln" -> FLn(x)

\* The primitive each arm of UnaryNode::evaluate applies.
UnaryValue(op, x) ==
    CASE op = "Negate" -> FNeg(x)
      [] op = "Sqrt" -> FSqrt(x)
      [] op = "Sin" -> FSin(x)
      [] op = "Cos" -> FCos(x)
      [] op = "Exp" -> FExp(x)
      [] op = "Ln" -> FLn(x)

\* The Subtract arm of the evaluator (BinaryNode::Subtract has no evaluate arm
\* in the sources; it is the IEEE-754 subtraction of the specification).
SubtractValue(l, r) == FSub(l, r)

\* The arms with their operands exchanged.
BinaryValue_OperandsSwapped(op, l, r) ==
    CASE op = "Add" -> FAdd(r, l)
      [] op = "Subtract" -> SubtractValue(r, l)
      [] op = "Multiply" -> FMul(r, l)
      [] op = "Frac" -> FDiv(r, l)
      [] op = "Pow" -> FPow(r, l)
      [] op = "Log" -> FLog(l, r)

\* The primitive each arm of BinaryNode::evaluate applies to the values of the
\* first (l) and the second (r) child.  The Log arm names its children
\* (base, inner) and computes inner.log(base).
BinaryValue(op, l, r) ==
    CASE op = "Add" -> FAdd(l, r)
      [] op = "Subtract" -> SubtractValue(l, r)
      [] op = "Multiply" -> FMul(l, r)
      [] op = "Frac" -> FDiv(l, r)
      [] op = "Pow" -> FPow(l, r)
      [] op = "Log" -> FLog(r, l)

\* The second outcome of a binary node, after the first (a) succeeded.
Then(a, b) == [b EXCEPT !.reads = a.reads \o b.reads]

\* BinaryNode::evaluate: the operands of every arm but Log are evaluated left
\* then right; the Log arm evaluates inner (the second child) before base.
BinaryEvaluate(op, l, r) ==
    IF op = "Log"
    THEN IF r.st = "panic" THEN r
         ELSE IF l.st = "panic" THEN Then(r, l)
         ELSE EvalOk(BinaryValue(op, l.val, r.val), r.reads \o l.reads)
    ELSE IF l.st = "panic" THEN l
         ELSE IF r.st = "panic" THEN Then(l, r)
         ELSE EvalOk(BinaryValue(op, l.val, r.val), l.reads \o r.reads)

\* UnaryNode::evaluate on the outcome of the child.
UnaryEvaluate(op, x) ==
    IF x.st = "panic" THEN x ELSE EvalOk(UnaryValue(op, x.val), x.reads)

\* Expr::evaluate.
RECURSIVE evaluate(_, _)
evaluate(e, v) ==
    IF IsLeaf(e) THEN LeafEvaluate(e, v)
    ELSE IF IsUnary(e) THEN UnaryEvaluate(e.tag, evaluate(inner(e), v))
    ELSE BinaryEvaluate(e.tag, evaluate(left(e), v), evaluate(right(e), v))

(***************************************************************************)
(* The arity analyzer.                                                     *)
(***************************************************************************)
Max(a, b) == IF a >= b THEN a ELSE b

\* LeafNode::num_variables.
\* The index itself, not the index plus one.
LeafNumVariables_Index(e) == IF e.tag = "Constant" THEN 0 ELSE e.idx

\* LeafNode::num_variables.
LeafNumVariables(e) == IF e.tag = "Constant" THEN 0 ELSE e.idx + 1

\* BinaryNode::num_variables.
BinaryNumVariables(l, r) == Max(l, r)

\* Expr::num_variables.
RECURSIVE num_variables(_)
num_variables(e) ==
    IF IsLeaf(e) THEN LeafNumVariables(e)
    ELSE IF IsUnary(e) THEN num_variables(inner(e))
    ELSE BinaryNumVariables(num_variables(left(e)), num_variables(right(e)))

(***************************************************************************)
(* The IR the lowering emits.  A builder is [np, insts]: the entry block   *)
(* has np parameters, the IR values 0 .. np-1, and the k-th instruction    *)
(* defines the value np + k - 1.  An instruction is [op, a, b, imm, off]:  *)
(* a and b are the values it uses, imm an f64 immediate, off an i32        *)
(* offset.                                                                 *)
(***************************************************************************)
Inst(op, a, b, imm, off) == [op |-> op, a |-> a, b |-> b, imm |-> imm, off |-> off]

NewBuilder(np) == [np |-> np, insts |-> <<>>]
\* builder.ins().<op>(...): the instruction is appended, its value returned.
Emit(b, i) == [st |-> "ok", b |-> [b EXCEPT !.insts = Append(@, i)], v |-> b.np + Len(b.insts)]
\* A lowering that hands back a block parameter emits nothing.
Param(b, v) == [st |-> "ok", b |-> b, v |-> v]
\* panic!() and unimplemented!() inside the lowering.
LowerPanic(b) == [st |-> "panic", b |-> b, v |-> 0]

\* (i * 8) as i32: the low 32 bits of the product, as a signed integer.
OffsetI32(i) ==
    LET low == i % (2 ^ 28)
        hi == (i \div (2 ^ 28)) % 2
    IN  low * 8 + (IF hi = 1 THEN (-(2 ^ 30)) - (2 ^ 30) ELSE 0)

\* A variable load that also clears the cell it read.
LeafBuildJitNd_Consuming(e, b) ==
    IF e.tag = "Constant" THEN Emit(b, Inst("f64const", 0, 0, e.val, 0))
    ELSE LET ld == Emit(b, Inst("load", 0, 0, Fin(0), OffsetI32(e.idx)))
             zero == Emit(ld.b, Inst("f64const", 0, 0, Fin(0), 0))
             st == Emit(zero.b, Inst("store", 0, zero.v, Fin(0), OffsetI32(e.idx)))
         IN  [st |-> "ok", b |-> st.b, v |-> ld.v]

\* A variable load that counts its index back from the end of the vector:
\* the cell at args_ptr + 8 * len - 8 * (i + 1).
LeafBuildJitNd_FromEnd(e, b) ==
    IF e.tag = "Constant" THEN Emit(b, Inst("f64const", 0, 0, e.val, 0))
    ELSE LET bytes == Emit(b, Inst("imul_imm", 1, 0, Fin(0), 8))
             end == Emit(bytes.b, Inst("iadd", 0, bytes.v, Fin(0), 0))
         IN  Emit(end.b, Inst("load", end.v, 0, Fin(0), (-OffsetI32(e.idx)) - 8))

\* LeafNode::build_jit_nd.
LeafBuildJitNd(e, b) ==
    IF e.tag = "Constant" THEN Emit(b, Inst("f64const", 0, 0, e.val, 0))
    ELSE Emit(b, Inst("load", 0, 0, Fin(0), OffsetI32(e.idx)))

\* LeafNode::build_jit_1d.
LeafBuildJit1d(e, b) ==
    IF e.tag = "Constant" THEN Emit(b, Inst("f64const", 0, 0, e.val, 0))
    ELSE Param(b, 0)

\* LeafNode::build_jit_2d.
LeafBuildJit2d(e, b) ==
    IF e.tag = "Constant" THEN Emit(b, Inst("f64const", 0, 0, e.val, 0))
    ELSE IF e.idx = 0 THEN Param(b, 0)
    ELSE IF e.idx = 1 THEN Param(b, 1)
    ELSE LowerPanic(b)

\* LeafNode::build_jit_3d.
LeafBuildJit3d(e, b) ==
    IF e.tag = "Constant" THEN Emit(b, Inst("f64const", 0, 0, e.val, 0))
    ELSE IF e.idx = 0 THEN Param(b, 0)
    ELSE IF e.idx = 1 THEN Param(b, 1)
    ELSE IF e.idx = 2 THEN Param(b, 2)
    ELSE LowerPanic(b)

LeafBuildJit(shape, e, b) ==
    CASE shape = "nd" -> LeafBuildJitNd(e, b)
      [] shape = "1d" -> LeafBuildJit1d(e, b)
      [] shape = "2d" -> LeafBuildJit2d(e, b)
      [] shape = "3d" -> LeafBuildJit3d(e, b)

\* UnaryNode::expression_value.
UnaryExpressionValue(op, b, input) ==
    CASE op = "Negate" -> Emit(b, Inst("fneg", input, 0, Fin(0), 0))
      [] op = "Sqrt" -> Emit(b, Inst("sqrt", input, 0, Fin(0), 0))
      [] OTHER -> LowerPanic(b)

\* BinaryNode::expression_value.
BinaryExpressionValue(op, b, left_value, right_value) ==
    CASE op = "Add" -> Emit(b, Inst("fadd", left_value, right_value, Fin(0), 0))
      [] op = "Subtract" -> Emit(b, Inst("fsub", left_value, right_value, Fin(0), 0))
      [] op = "Multiply" -> Emit(b, Inst("fmul", left_value, right_value, Fin(0), 0))
      [] op = "Frac" -> Emit(b, Inst("fdiv", left_value, right_value, Fin(0), 0))
      [] OTHER -> LowerPanic(b)

\* UnaryNode::build_jit_*: the inner expression, then the operation.
UnaryBuildJit(op, input) ==
    IF input.st = "panic" THEN input ELSE UnaryExpressionValue(op, input.b, input.v)

\* Expr::build_jit_* with BinaryNode::build_jit_*: the left operand, the right
\* operand into the same builder, then the operation.
RECURSIVE BuildJit(_, _, _)
\* A lowering that emits the right operand of a binary node before the left.
BuildJit_RightFirst(shape, e, b) ==
    IF IsLeaf(e) THEN LeafBuildJit(shape, e, b)
    ELSE IF IsUnary(e) THEN UnaryBuildJit(e.tag, BuildJit(shape, inner(e), b))
    ELSE LET right_value == BuildJit(shape, right(e), b)
         IN  IF right_value.st = "panic" THEN right_value
             ELSE LET left_value == BuildJit(shape, left(e), right_value.b)
                  IN  IF left_value.st = "panic" THEN left_value
                      ELSE BinaryExpressionValue(e.tag, left_value.b,
                                                 left_value.v, right_value.v)

BuildJit(shape, e, b) ==
    IF IsLeaf(e) THEN LeafBuildJit(shape, e, b)
    ELSE IF IsUnary(e) THEN UnaryBuildJit(e.tag, BuildJit(shape, inner(e), b))
    ELSE LET left_value == BuildJit(shape, left(e), b)
         IN  IF left_value.st = "panic" THEN left_value
             ELSE LET right_value == BuildJit(shape, right(e), left_value.b)
                  IN  IF right_value.st = "panic" THEN right_value
                      ELSE BinaryExpressionValue(e.tag, right_value.b,
                                                 left_value.v, right_value.v)

(***************************************************************************)
(* The compilation driver.  A handle is what compile_*d gives its caller:  *)
(* st = "ok" with the code behind the function pointer, or st = "panic"    *)
(* when the lowering panicked; keepalive says whether the handle holds the *)
(* JIT module.                                                             *)
(***************************************************************************)
NoHandle == [st |-> "none", shape |-> "", np |-> 0, code |-> <<>>, keepalive |-> FALSE]

\* The parameters of the function signature: [f64; k], or [pointer, i64].
NumParams(shape) ==
    CASE shape = "1d" -> 1 [] shape = "2d" -> 2 [] shape = "3d" -> 3 [] shape = "nd" -> 2

\* Expression::compile_1d / compile_2d / compile_3d / compile_nd: the entry
\* block, the lowering, the return, and Ok(the bare function pointer).
Compile(shape, e) ==
    LET r == BuildJit(shape, e, NewBuilder(NumParams(shape)))
    IN  IF r.st = "panic"
        THEN [st |-> "panic", shape |-> shape, np |-> NumParams(shape), code |-> <<>>,
              keepalive |-> FALSE]
        ELSE [st |-> "ok", shape |-> shape, np |-> NumParams(shape),
              code |-> Append(r.b.insts, Inst("return", r.v, 0, Fin(0), 0)),
              keepalive |-> FALSE]

(***************************************************************************)
(* Running compiled code.  The memory behind the base pointer is the input *)
(* vector record [len, at]: the cell at byte offset 8 * i is at[i]; the    *)
(* cells at and after len are whatever lies behind the vector.             *)
(***************************************************************************)
ReadCell(mem, addr) ==
    IF addr >= 0 /\ addr % 8 = 0 /\ (addr \div 8) \in DOMAIN mem.at
    THEN mem.at[addr \div 8] ELSE Unmapped

WriteCell(mem, addr, x) == [mem EXCEPT !.at[addr \div 8] = x]

RunOk(x, mem) == [st |-> "ok", val |-> x, mem |-> mem]
RunFault(mem) == [st |-> "fault", val |-> NaN, mem |-> mem]

\* One instruction after the other; regs[v + 1] is the IR value v.
RECURSIVE Exec(_, _, _, _)
Exec(code, k, regs, mem) ==
    IF k > Len(code) THEN RunFault(mem)
    ELSE LET i == code[k]
             x == regs[i.a + 1]
             y == regs[i.b + 1]
             next(v) == Exec(code, k + 1, Append(regs, v), mem)
         IN  CASE i.op = "return" -> RunOk(x, mem)
               [] i.op = "f64const" -> next(i.imm)
               [] i.op = "load" ->
                    IF x.k = "ptr" /\ ReadCell(mem, x.m + i.off) # Unmapped
                    THEN next(ReadCell(mem, x.m + i.off)) ELSE RunFault(mem)
               [] i.op = "store" ->
                    IF x.k = "ptr" /\ ReadCell(mem, x.m + i.off) # Unmapped
                    THEN Exec(code, k + 1, Append(regs, y), WriteCell(mem, x.m + i.off, y))
                    ELSE RunFault(mem)
               [] i.op = "fneg" -> next(FNeg(x))
               [] i.op = "sqrt" -> next(FSqrt(x))
               [] i.op = "fadd" -> next(FAdd(x, y))
               [] i.op = "fsub" -> next(FSub(x, y))
               [] i.op = "fmul" -> next(FMul(x, y))
               [] i.op = "fdiv" -> next(FDiv(x, y))
               [] i.op = "imul_imm" -> next(IntV(x.m * i.off))
               [] i.op = "iadd" -> next(Ptr(x.m + y.m))

\* The arguments of a call on the vector v: its elements for a fixed shape,
\* the base pointer and a length for N-D.
CallArgs(h, v, len) ==
    IF h.shape = "nd" THEN <<Ptr(0), IntV(len)>>
    ELSE [j \in 1..h.np |-> v.at[j - 1]]

\* A compiled function that still reads the tree it was compiled from.
CallFn_BorrowsTree(h, v, len) ==
    IF treeAlive THEN Exec(h.code, 1, CallArgs(h, v, len), v) ELSE RunFault(v)

\* A call of the compiled function.
CallFn(h, v, len) == Exec(h.code, 1, CallArgs(h, v, len), v)

(***************************************************************************)
(* The trees and the input vectors of the model.                           *)
(***************************************************************************)
VarIdx == (0..MaxVarIdx) \cup {BigIdx}
ConstVals == {Fin(0), Fin(2)}
Leaves == {Constant(c) : c \in ConstVals} \cup {Variable(i) : i \in VarIdx}

\* Every operator over leaves.
FlatTrees ==
    Leaves
    \cup {Unary(op, x) : op \in UnaryTags, x \in Leaves}
    \cup {Binary(op, l, r) : op \in BinaryTags \ {"Log"}, l \in Leaves, r \in Leaves}
    \cup {log(argument, base) : argument \in Leaves, base \in Leaves}

\* Nested trees, over two variables and the operators Negate and Frac.
NestLeaves == {Variable(0), Variable(1)}
NestLevel(S) == S \cup {Unary("Negate", x) : x \in S} \cup {Binary("Frac", l, r) : l \in S, r \in S}
NestedTrees == NestLevel(NestLevel(NestLeaves))

Trees == FlatTrees \cup NestedTrees

\* The element at index i of the input vector of pattern p, and what lies
\* behind a vector of that pattern: unmapped memory, or some other f64.
Rank(i) == IF i > MaxVarIdx THEN MaxVarIdx + 1 ELSE i
Element(p, i) ==
    CASE p = "A" -> (IF Rank(i) = 0 THEN Fin(4) ELSE IF Rank(i) = 1 THEN Fin(0)
                     ELSE Fin(-(Rank(i) + 1)))
      [] p = "B" -> Fin((Rank(i) + 1) * (Rank(i) + 1))
Behind(p) == IF p = "A" THEN Unmapped ELSE Fin(-7)

Lens == (0..(MaxVarIdx + 1)) \cup {BigIdx + 1}
Vector(p, n) ==
    [len |-> n, at |-> [i \in VarIdx |-> IF i < n THEN Element(p, i) ELSE Behind(p)]]
Vectors == {Vector(p, n) : p \in {"A", "B"}, n \in Lens}

\* The lengths a caller may pass to the N-D function.
LenArgs == 0..(MaxVarIdx + 2)

(***************************************************************************)
(* The state machine: one tree, one input vector, the handle of one        *)
(* compilation, and the client's calls.                                    *)
(*   tree, treeAlive  the expression, and whether it has been dropped;     *)
(*   vars             the input vector (and the memory behind its pointer);*)
(*   handle           what compile_*d returned;                            *)
(*   module           the JITModule of the compilation's JITHelper;        *)
(*   last             the outcome of the last evaluate or call;            *)
(*   baseline         the outcome of the first call of the function made   *)
(*                    while the tree was alive;                            *)
(*   calls            the number of calls made so far.                     *)
(***************************************************************************)
NoOutcome == [op |-> "none", st |-> "none", val |-> NaN, idx |-> 0, dropped |-> FALSE]
Outcome(op, st, val, idx) ==
    [op |-> op, st |-> st, val |-> val, idx |-> idx, dropped |-> ~treeAlive]

\* The variables of the batch evaluator while it is not in use.
NoBatch == [st |-> "none", err |-> "", lengths |-> <<>>, vals |-> <<>>, evaluated |-> 0]
BatchIdle == rows = <<>> /\ batch = NoBatch
\* No combinator applied, no thread, no variable, no JITHelper.
NoBuilt == [op |-> "none", a |-> Constant(NaN), b |-> Constant(NaN)]
NoVariable == [name |-> "", index |-> -1, found |-> FALSE]
NoSession == [state |-> "none", shape |-> "", b |-> NewBuilder(0), v |-> 0]
BuildIdle == built = NoBuilt
SharedIdle == threads = <<>>
NamesIdle == existing_variables = <<>> /\ variable = NoVariable /\ handed = {}
SessionIdle == session = NoSession
\* No PyExpr, no evaluate_vec call.
NoPyExpr == [inner |-> Constant(NaN), compiled_fn |-> NoHandle, compiles |-> 0]
NoRun == [state |-> "none", ncalls |-> 0, parallel |-> FALSE, rows |-> 0, cols |-> 0,
          behind |-> Unmapped, task |-> <<>>, val |-> <<>>, output |-> <<>>,
          order |-> <<>>]
BindingIdle == pyexpr = NoPyExpr /\ run = NoRun
\* No compilation on a host, no tagged expression, no ScalarType operation.
NoHost == [isa |-> 0, st |-> "none", sig |-> <<>>, ret |-> "", code |-> <<>>]
NoExpr == [init |-> FALSE, node |-> "none", leaf |-> "", kids |-> <<>>]
NoScalar == [op |-> "none", args |-> <<>>, out |-> <<>>]
HostIdle == host = NoHost
TaggedIdle == tagged = NoExpr
ScalarIdle == scalar = NoScalar
RestIdle == BindingIdle /\ HostIdle /\ TaggedIdle /\ ScalarIdle
SideIdle ==
    BatchIdle /\ BuildIdle /\ SharedIdle /\ NamesIdle /\ SessionIdle /\ RestIdle

\* The variables of the compile-and-call machine while it is not in use.
JitIdle ==
    /\ treeAlive = TRUE
    /\ vars = Vector("A", 0)
    /\ handle = NoHandle
    /\ module = "none"
    /\ last = NoOutcome
    /\ baseline = NoOutcome
    /\ calls = 0

Init ==
    /\ tree \in Trees
    /\ treeAlive = TRUE
    /\ vars \in Vectors
    /\ handle = NoHandle
    /\ module = "none"
    /\ last = NoOutcome
    /\ baseline = NoOutcome
    /\ calls = 0
    /\ SideIdle

\* evaluate(&tree, &vars).
Evaluate ==
    /\ treeAlive
    /\ LET r == evaluate(tree, vars)
       IN  last' = Outcome("evaluate", r.st, r.val, r.idx)
    /\ UNCHANGED <<tree, treeAlive, vars, handle, module, baseline, calls, sideVars>>

\* num_variables(&tree).
NumVariables ==
    /\ treeAlive
    /\ last' = Outcome("num_variables", "ok", NaN, num_variables(tree))
    /\ UNCHANGED <<tree, treeAlive, vars, handle, module, baseline, calls, sideVars>>

\* compile_*d(&tree): the JITHelper is a local of the driver, so the module it
\* owns is dropped when the driver returns.
CompileShape(shape) ==
    /\ treeAlive
    /\ handle.st = "none" \/ handle.shape = shape
    /\ handle' = Compile(shape, tree)
    /\ module' = "dropped"
    /\ UNCHANGED <<tree, treeAlive, vars, last, baseline, calls, sideVars>>

Compile1d == CompileShape("1d")
Compile2d == CompileShape("2d")
Compile3d == CompileShape("3d")
CompileNd == CompileShape("nd")

\* A call of the compiled function on the input vector: f(x), f(x, y),
\* f(x, y, z) with the vector's elements, or f(ptr, len).
Call ==
    /\ handle.st = "ok"
    /\ calls < MaxCalls
    /\ handle.shape # "nd" => vars.len = handle.np
    /\ calls' = calls + 1
    /\ \E len \in LenArgs \cup {vars.len} :
         LET r == CallFn(handle, vars, len)
         IN  /\ last' = Outcome("call", r.st, r.val, 0)
             /\ vars' = r.mem
             /\ baseline' = IF baseline.op = "none" /\ treeAlive
                            THEN Outcome("call", r.st, r.val, 0) ELSE baseline
    /\ UNCHANGED <<tree, treeAlive, handle, module, sideVars>>

\* The caller drops the tree.
DropTree ==
    /\ treeAlive
    /\ treeAlive' = FALSE
    /\ UNCHANGED <<tree, vars, handle, module, last, baseline, calls, sideVars>>

Next ==
    \/ Evaluate
    \/ NumVariables
    \/ Compile1d
    \/ Compile2d
    \/ Compile3d
    \/ CompileNd
    \/ Call
    \/ DropTree

Spec == Init /\ [][Next]_vars_all

(***************************************************************************)
(* The batch evaluator, Expr::evaluate_vec: the outcome is                 *)
(* [st, err, lengths, vals, evaluated], st "ok" with the collected values, *)
(* "err" with the error and the lengths it carries, or "panic" when the    *)
(* evaluate of a row panicked; evaluated counts the rows evaluate was      *)
(* called on.                                                              *)
(***************************************************************************)
BatchOk(vals) ==
    [st |-> "ok", err |-> "", lengths |-> <<>>, vals |-> vals, evaluated |-> Len(vals)]
BatchErr(err, lengths) ==
    [st |-> "err", err |-> err, lengths |-> lengths, vals |-> <<>>, evaluated |-> 0]
BatchPanic(n) ==
    [st |-> "panic", err |-> "", lengths |-> <<>>, vals |-> <<>>, evaluated |-> n]

\* variables.iter().map(|values| values.len()).collect()
Lengths(variables) == [k \in 1..Len(variables) |-> variables[k].len]

\* variables.iter().map(|values| self.evaluate(values)).collect(), from row k
\* on, the values of the rows before it in acc.
RECURSIVE EvaluateRows(_, _, _, _)
EvaluateRows(e, variables, k, acc) ==
    IF k > Len(variables) THEN BatchOk(acc)
    ELSE LET r == evaluate(e, variables[k])
         IN  IF r.st = "panic" THEN BatchPanic(k)
             ELSE EvaluateRows(e, variables, k + 1, Append(acc, r.val))

\* An evaluate_vec that checks each row's length as it comes to evaluate it.
evaluate_vec_ChecksAsItGoes(e, variables) ==
    LET lengths == Lengths(variables)
        bad == {k \in 1..Len(variables) : lengths[k] # lengths[1]}
        stop == IF bad = {} THEN Len(variables) + 1
                ELSE CHOOSE k \in bad : \A j \in bad : k <= j
        head == EvaluateRows(e, SubSeq(variables, 1, stop - 1), 1, <<>>)
    IN  IF lengths = <<>> THEN BatchErr("NoVariable", <<>>)
        ELSE IF head.st = "panic" \/ bad = {} THEN head
        ELSE [BatchErr("LengthMismatch", lengths) EXCEPT !.evaluated = head.evaluated]

\* Expr::evaluate_vec.
evaluate_vec(e, variables) ==
    LET lengths == Lengths(variables)
    IN  IF lengths = <<>> THEN BatchErr("NoVariable", <<>>)
        ELSE IF \E k \in 1..Len(lengths) : lengths[k] # lengths[1]
        THEN BatchErr("LengthMismatch", lengths)
        ELSE EvaluateRows(e, variables, 1, <<>>)

\* The lists of rows of the model: row k has the pattern "A" for odd k and
\* "B" for even k, and any width up to MaxVarIdx + 1.
Widths == 0..(MaxVarIdx + 1)
Row(k, n) == Vector(IF k % 2 = 1 THEN "A" ELSE "B", n)
RowLists ==
    UNION {{[k \in 1..n |-> Row(k, w[k])] : w \in [1..n -> Widths]} : n \in 0..MaxRows}

InitBatch ==
    /\ tree \in Trees
    /\ rows \in RowLists
    /\ batch = NoBatch
    /\ JitIdle /\ BuildIdle /\ SharedIdle /\ NamesIdle /\ SessionIdle /\ RestIdle

\* tree.evaluate_vec(&rows).
EvaluateVec ==
    /\ batch.st = "none"
    /\ batch' = evaluate_vec(tree, rows)
    /\ UNCHANGED <<tree, rows, jitVars, built, threads, nameVars, session, restVars>>

NextBatch == EvaluateVec

SpecBatch == InitBatch /\ [][NextBatch]_vars_all

(***************************************************************************)
(* What the properties below are stated with.                              *)
(***************************************************************************)
\* The node tags that occur in a tree.
RECURSIVE Tags(_)
Tags(e) ==
    {e.tag} \cup (IF IsLeaf(e) THEN {}
                  ELSE IF IsUnary(e) THEN Tags(inner(e))
                  ELSE Tags(left(e)) \cup Tags(right(e)))

\* The indices of the Variable leaves of a tree.
RECURSIVE VariableIndices(_)
VariableIndices(e) ==
    IF e.tag = "Variable" THEN {e.idx}
    ELSE IF IsLeaf(e) THEN {}
    ELSE IF IsUnary(e) THEN VariableIndices(inner(e))
    ELSE VariableIndices(left(e)) \cup VariableIndices(right(e))

\* max(i + 1) over the Variable(i) leaves, or 0 if there are none.
Arity(e) ==
    LET S == {i + 1 : i \in VariableIndices(e)}
    IN  IF S = {} THEN 0 ELSE CHOOSE m \in S : \A n \in S : m >= n

\* The value of a tree by structural recursion, each operator applied to
\* (left value, right value).
RECURSIVE RefValue(_, _)
RefValue(e, v) ==
    CASE e.tag = "Constant" -> e.val
      [] e.tag = "Variable" -> v.at[e.idx]
      [] e.tag = "Negate" -> FNeg(RefValue(inner(e), v))
      [] e.tag = "Sqrt" -> FSqrt(RefValue(inner(e), v))
      [] e.tag = "Sin" -> FSin(RefValue(inner(e), v))
      [] e.tag = "Cos" -> FCos(RefValue(inner(e), v))
      [] e.tag = "Exp" -> FExp(RefValue(inner(e), v))
      [] e.tag = "Ln" -> FLn(RefValue(inner(e), v))
      [] e.tag = "Add" -> FAdd(RefValue(left(e), v), RefValue(right(e), v))
      [] e.tag = "Subtract" -> FSub(RefValue(left(e), v), RefValue(right(e), v))
      [] e.tag = "Multiply" -> FMul(RefValue(left(e), v), RefValue(right(e), v))
      [] e.tag = "Frac" -> FDiv(RefValue(left(e), v), RefValue(right(e), v))
      [] e.tag = "Pow" -> FPow(RefValue(left(e), v), RefValue(right(e), v))
      [] e.tag = "Log" -> FLog(RefValue(left(e), v), RefValue(right(e), v))

\* The variable indices in the order a left-to-right traversal reads them.
RECURSIVE RefReads(_)
RefReads(e) ==
    IF e.tag = "Variable" THEN <<e.idx>>
    ELSE IF IsLeaf(e) THEN <<>>
    ELSE IF IsUnary(e) THEN RefReads(inner(e))
    ELSE RefReads(left(e)) \o RefReads(right(e))

ArithmeticTags ==
    {"Constant", "Variable", "Negate", "Sqrt", "Add", "Subtract", "Multiply", "Frac"}

\* The tree fits the shape of the compiled function, and the vector the tree.
Fits ==
    IF handle.shape = "nd" THEN Arity(tree) <= vars.len
    ELSE Arity(tree) <= handle.np /\ vars.len = handle.np

(***************************************************************************)
(* C1.  For every tree built only from Constant, Variable, Neg, Sqrt, Add, *)
(* Sub, Mul and Div nodes, every shape the tree fits and every input       *)
(* vector of that shape, a call of the compiled function returns exactly   *)
(* the value evaluate returns.  Violated: compile_nd lowers                *)
(* Variable(BigIdx) to a load at offset (BigIdx * 8) as i32 = 0.           *)
(***************************************************************************)
C1_JitAgreesWithEvaluate ==
    (last.op = "call" /\ Tags(tree) \subseteq ArithmeticTags /\ Fits)
        => /\ last.st = "ok"
           /\ evaluate(tree, vars).st = "ok"
           /\ last.val = evaluate(tree, vars).val

C3_ArityIsMaxIndexPlusOne ==
    last.op = "num_variables" => last.idx = Arity(tree)

\* The arity of a tree with two different variables has been computed.
C3_Witness ==
    /\ last.op = "num_variables"
    /\ Cardinality(VariableIndices(tree)) = 2
    /\ last.idx > 0

(***************************************************************************)
(* C4.  For X in {1, 2, 3}, compile_Xd(t) returns the error value          *)
(* ShapeMismatch if and only if arity(t) > X; it then neither aborts nor   *)
(* returns a compiled function.  Violated: the drivers only ever return    *)
(* Ok; compile_2d and compile_3d panic in the leaf lowering, and           *)
(* compile_1d returns a function for every arity.                          *)
(***************************************************************************)
C4_ShapeMismatchIffArityExceedsShape ==
    (handle.st # "none" /\ handle.shape # "nd")
        => (handle.st = "ShapeMismatch" <=> Arity(tree) > handle.np)

C6_LogIsArgumentThenBase ==
    (last.op = "evaluate" /\ last.st = "ok" /\ tree.tag = "Log")
        => LET argument == left(tree)
               base == right(tree)
           IN  /\ tree = log(argument, base)
               /\ last.val = FDiv(FLn(RefValue(argument, vars)), FLn(RefValue(base, vars)))
               /\ evaluate(PyExprLog(base, argument), vars).val = last.val

(***************************************************************************)
(* C7.  A function pointer handed out by compile_1d, compile_2d,           *)
(* compile_3d or compile_nd is bundled with a keep-alive reference to its  *)
(* JIT module: while the pointer can be called, the module has not been    *)
(* released.  Violated: the drivers return the bare pointer, and the       *)
(* JITHelper that owns the module is a local of the driver.                *)
(***************************************************************************)
C7_HandleKeepsModuleAlive ==
    handle.st = "ok" => (handle.keepalive /\ module = "alive")

(***************************************************************************)
(* C8.  After compile_Kd(t) returned f, dropping t changes nothing about   *)
(* f: a call made after the drop returns what the call returned while t    *)
(* was alive.                                                              *)
(***************************************************************************)
C8_DropTreeLeavesFunctionAlone ==
    (last.op = "call" /\ last.dropped /\ baseline.op = "call")
        => (last.st = baseline.st /\ last.val = baseline.val)

\* The function was called while the tree was alive, and again after the
\* tree was dropped; the tree holds a constant and reads a variable.
C8_Witness ==
    /\ last.op = "call" /\ last.dropped /\ last.st = "ok"
    /\ baseline.op = "call"
    /\ {"Constant", "Variable"} \subseteq Tags(tree)

C10_NdIgnoresLen ==
    (handle.st = "ok" /\ handle.shape = "nd" /\ last.op = "call")
        => \A len \in LenArgs \cup {vars.len} :
             /\ CallFn(handle, vars, len).st = last.st
             /\ CallFn(handle, vars, len).val = last.val

\* An N-D function that loads a variable has been called.
C10_Witness ==
    /\ handle.st = "ok" /\ handle.shape = "nd"
    /\ last.op = "call" /\ last.st = "ok"
    /\ VariableIndices(tree) # {}
    /\ Cardinality(LenArgs \cup {vars.len}) > 1

(***************************************************************************)
(* C11.  The loads of the function compile_nd(t) emits read from the base  *)
(* pointer, and the set of their byte offsets is exactly { 8 * i :         *)
(* Variable(i) occurs in t }, without truncation; a tree with no Variable  *)
(* leaf emits no load.  (8 * i is compared as offset / 8 = i with offset a *)
(* non-negative multiple of 8.)  Violated: the offset is (i * 8) as i32,   *)
(* which is 0 for i = 2^29.                                                *)
(***************************************************************************)
C11_NdLoadsAtEightTimesIndex ==
    (handle.st = "ok" /\ handle.shape = "nd")
        => LET loads == {k \in 1..Len(handle.code) : handle.code[k].op = "load"}
               offsets == {handle.code[k].off : k \in loads}
           IN  /\ \A k \in loads : handle.code[k].a = 0
               /\ \A o \in offsets : o >= 0 /\ o % 8 = 0
               /\ {o \div 8 : o \in offsets} = VariableIndices(tree)

\* The rows are not empty and all have the same width.
EqualWidths == rows # <<>> /\ \A k \in 1..Len(rows) : rows[k].len = rows[1].len

(***************************************************************************)
(* C12.  Given a non-empty list of rows of equal width, evaluate_vec       *)
(* returns Ok with exactly one result per row, in row order, the k-th      *)
(* being evaluate(t, rows[k]).  Violated: on rows narrower than the tree's *)
(* arity the per-row evaluate panics and evaluate_vec returns nothing.     *)
(***************************************************************************)
C12_BatchIsEvaluatePerRow ==
    (batch.st # "none" /\ EqualWidths)
        => /\ batch.st = "ok"
           /\ Len(batch.vals) = Len(rows)
           /\ \A k \in 1..Len(rows) :
                /\ evaluate(tree, rows[k]).st = "ok"
                /\ batch.vals[k] = evaluate(tree, rows[k]).val

(***************************************************************************)
(* C13.  evaluate_vec returns the empty-input error (NoVariable in the     *)
(* code) when given no rows, and LengthMismatch carrying the row widths    *)
(* when two rows differ in width; in both cases no row has been evaluated  *)
(* and no partial result is produced.                                      *)
(***************************************************************************)
C13_BatchValidatesUpFront ==
    (batch.st # "none" /\ ~EqualWidths)
        => /\ batch.st = "err"
           /\ batch.evaluated = 0
           /\ batch.vals = <<>>
           /\ rows = <<>> => (batch.err = "NoVariable" /\ batch.lengths = <<>>)
           /\ rows # <<>> =>
                /\ batch.err = "LengthMismatch"
                /\ Len(batch.lengths) = Len(rows)
                /\ \A k \in 1..Len(rows) : batch.lengths[k] = rows[k].len

\* evaluate_vec has returned on two rows of different widths, the first of
\* which holds every variable of the tree.
C13_Witness ==
    /\ batch.st = "err" /\ batch.err = "LengthMismatch"
    /\ Len(rows) = 2 /\ rows[1].len # rows[2].len
    /\ VariableIndices(tree) # {} /\ Arity(tree) <= rows[1].len

\* The operators expression_value has no arm for.
NotLowered == {"Sin", "Cos", "Exp", "Ln", "Pow", "Log"}

(***************************************************************************)
(* C14.  compile_Kd of a tree that contains an operator the lowering does  *)
(* not emit IR for (Sin, Cos, Exp, Ln, Pow, Log) returns the error value   *)
(* UnsupportedInJit; it neither aborts nor returns a function pointer.     *)
(* Violated: expression_value reaches unimplemented!(), a panic.           *)
(***************************************************************************)
C14_UnsupportedOperatorIsAnError ==
    (handle.st # "none" /\ Tags(tree) \cap NotLowered # {})
        => handle.st = "UnsupportedInJit"

(***************************************************************************)
(* C15.  Lowering a Pow or Log node emits, after the IR of its two         *)
(* operands, one call of the host math library taking the two operand      *)
(* values, so compile_Kd succeeds on a tree with Pow or Log whose          *)
(* variables fit the shape.  Violated: expression_value has no arm for Pow *)
(* and Log, and no call instruction is ever emitted.                       *)
(***************************************************************************)
C15_PowAndLogAreLibraryCalls ==
    (/\ handle.st # "none"
     /\ tree.tag \in {"Pow", "Log"}
     /\ (handle.shape = "nd" \/ Arity(tree) <= handle.np))
        => /\ handle.st = "ok"
           /\ LET n == Len(handle.code)
              IN  /\ n >= 2
                  /\ handle.code[n - 1].op = "call"
                  /\ handle.code[n - 1].a # handle.code[n - 1].b
                  /\ handle.code[n].op = "return"
                  /\ handle.code[n].a = handle.np + n - 2

(***************************************************************************)
(* Building trees with the combinators and the operator sugar: tree is the *)
(* expression built so far, built the last combinator applied and the      *)
(* operands it was given.                                                  *)
(***************************************************************************)
RECURSIVE Depth(_)
Depth(e) ==
    IF IsLeaf(e) THEN 1
    ELSE IF IsUnary(e) THEN 1 + Depth(inner(e))
    ELSE 1 + Max(Depth(left(e)), Depth(right(e)))

\* The unary combinator that builds a node of the operator op.
UnaryCombinator(op, x) ==
    CASE op = "Negate" -> neg(x)
      [] op = "Sqrt" -> sqrt(x)
      [] op = "Sin" -> sin(x)
      [] op = "Cos" -> cos(x)
      [] op = "Exp" -> exp(x)
      [] op = "Ln" -> ln(x)

\* The binary combinator or operator that builds a node of the operator op.
BinaryCombinator(op, a, b) ==
    CASE op = "Add" -> add(a, b)
      [] op = "Subtract" -> sub(a, b)
      [] op = "Multiply" -> mul(a, b)
      [] op = "Frac" -> div(a, b)
      [] op = "Pow" -> pow(a, b)
      [] op = "Log" -> log(a, b)

\* The other operand of a binary combinator.
OtherOperands == {Variable(1), neg(Constant(Fin(2)))}

InitBuild ==
    /\ tree \in Leaves
    /\ built = NoBuilt
    /\ JitIdle /\ BatchIdle /\ SharedIdle /\ NamesIdle /\ SessionIdle /\ RestIdle

\* tree = op(tree).
BuildUnary ==
    /\ Depth(tree) < MaxDepth
    /\ \E op \in UnaryTags :
         /\ tree' = UnaryCombinator(op, tree)
         /\ built' = [op |-> op, a |-> tree, b |-> Constant(NaN)]
    /\ UNCHANGED <<jitVars, batchVars, threads, nameVars, session, restVars>>

\* tree = op(tree, other) or op(other, tree).
BuildBinary ==
    /\ Depth(tree) < MaxDepth
    /\ \E op \in BinaryTags, other \in OtherOperands, swap \in BOOLEAN :
         LET a == IF swap THEN other ELSE tree
             b == IF swap THEN tree ELSE other
         IN  /\ tree' = BinaryCombinator(op, a, b)
             /\ built' = [op |-> op, a |-> a, b |-> b]
    /\ UNCHANGED <<jitVars, batchVars, threads, nameVars, session, restVars>>

NextBuild == BuildUnary \/ BuildBinary

SpecBuild == InitBuild /\ [][NextBuild]_vars_all

(***************************************************************************)
(* C16.  A binary combinator or operator (+, -, *, /, pow, log) applied to *)
(* (a, b) yields a node of exactly that operator whose left child is a and *)
(* whose right child is b, and a unary combinator or unary minus applied   *)
(* to x a node of that operator whose child is x: nothing is folded,       *)
(* simplified or reordered.                                                *)
(***************************************************************************)
C16_CombinatorsAreStructural ==
    built.op # "none"
        => /\ tree.tag = built.op
           /\ built.op \in UnaryTags =>
                (Len(tree.kids) = 1 /\ inner(tree) = built.a)
           /\ built.op \in BinaryTags =>
                (Len(tree.kids) = 2 /\ left(tree) = built.a /\ right(tree) = built.b)

\* A binary combinator has been applied to a negation and a compound tree
\* that can be told apart.
C16_Witness ==
    /\ built.op \in BinaryTags
    /\ built.a # built.b
    /\ built.a.tag = "Negate" /\ ~IsLeaf(built.b)

(***************************************************************************)
(* Concurrent evaluate calls on one shared tree.  Each thread runs the     *)
(* recursion of Expr::evaluate one node at a time: todo is what is left of *)
(* its traversal, a visit or an apply of the node at a path of the shared  *)
(* tree, stack the values of the operands evaluated so far.                *)
(***************************************************************************)
Threads == 1..MaxThreads

\* The node of the tree tr at a path of child positions.
RECURSIVE NodeAt(_, _)
NodeAt(tr, path) ==
    IF path = <<>> THEN tr ELSE NodeAt(tr.kids[Head(path)], Tail(path))

Visit(path) == [k |-> "visit", path |-> path]
Apply(path) == [k |-> "apply", path |-> path]

\* The tree after a thread that holds &self has evaluated, with the result
\* x, the node at a path.
SharedAfter_Memoizing(tr, path, x) == IF path = <<>> THEN Constant(x) ELSE tr
SharedAfter(tr, path, x) == tr

\* A thread about to call tree.evaluate(&v).
StartThread(v) ==
    [v |-> v, todo |-> <<Visit(<<>>)>>, stack |-> <<>>, st |-> "run", val |-> NaN, idx |-> 0]

\* The thread th after its next step on the tree tr.
StepThread(tr, th) ==
    LET item == Head(th.todo)
        rest == Tail(th.todo)
        e == NodeAt(tr, item.path)
        n == Len(th.stack)
        done(stack) ==
            IF rest = <<>>
            THEN [th EXCEPT !.todo = rest, !.stack = <<>>, !.st = "ok", !.val = stack[Len(stack)]]
            ELSE [th EXCEPT !.todo = rest, !.stack = stack]
    IN  IF item.k = "visit"
        THEN IF IsLeaf(e)
             THEN LET r == LeafEvaluate(e, th.v)
                  IN  IF r.st = "panic"
                      THEN [th EXCEPT !.todo = <<>>, !.stack = <<>>, !.st = "panic",
                                      !.idx = r.idx]
                      ELSE done(Append(th.stack, r.val))
             ELSE IF IsUnary(e)
             THEN [th EXCEPT !.todo = <<Visit(item.path \o <<1>>), Apply(item.path)>> \o rest]
             ELSE IF e.tag = "Log"
             THEN [th EXCEPT !.todo = <<Visit(item.path \o <<2>>), Visit(item.path \o <<1>>),
                                        Apply(item.path)>> \o rest]
             ELSE [th EXCEPT !.todo = <<Visit(item.path \o <<1>>), Visit(item.path \o <<2>>),
                                        Apply(item.path)>> \o rest]
        ELSE IF IsUnary(e)
             THEN done(Append(SubSeq(th.stack, 1, n - 1), UnaryValue(e.tag, th.stack[n])))
             ELSE IF e.tag = "Log"
             THEN done(Append(SubSeq(th.stack, 1, n - 2),
                              BinaryValue(e.tag, th.stack[n], th.stack[n - 1])))
             ELSE done(Append(SubSeq(th.stack, 1, n - 2),
                              BinaryValue(e.tag, th.stack[n - 1], th.stack[n])))

\* The trees the threads share: every operator over leaves, and one level of
\* nesting.
SharedTrees == FlatTrees \cup NestLevel(NestLeaves)

InitShared ==
    /\ tree \in SharedTrees
    /\ \E n \in Widths : threads = [t \in Threads |-> StartThread(Row(t, n))]
    /\ JitIdle /\ BatchIdle /\ BuildIdle /\ NamesIdle /\ SessionIdle /\ RestIdle

\* One step of one thread's evaluate.
ThreadStep ==
    \E t \in Threads :
        /\ threads[t].st = "run"
        /\ LET th == StepThread(tree, threads[t])
               item == Head(threads[t].todo)
               \* This step finished the evaluate of the node at item.path.
               returned == th.st # "panic"
                           /\ (item.k = "apply" \/ IsLeaf(NodeAt(tree, item.path)))
               value == IF th.st = "ok" THEN th.val ELSE th.stack[Len(th.stack)]
           IN  /\ threads' = [threads EXCEPT ![t] = th]
               /\ tree' = IF returned THEN SharedAfter(tree, item.path, value) ELSE tree
        /\ UNCHANGED <<jitVars, batchVars, built, nameVars, session, restVars>>

NextShared == ThreadStep

SpecShared == InitShared /\ [][NextShared]_vars_all

(***************************************************************************)
(* C17.  evaluate leaves the tree it is applied to unchanged, and under    *)
(* any interleaving of concurrent evaluate calls on one shared tree each   *)
(* call returns what it returns when run alone.                            *)
(***************************************************************************)
C17_SharedTreeIsImmutable ==
    [][/\ tree' = tree
       /\ \A t \in Threads :
            threads'[t].st # "run" =>
                LET alone == evaluate(tree, threads'[t].v)
                IN  /\ threads'[t].st = alone.st
                    /\ threads'[t].st = "ok" => threads'[t].val = alone.val
                    /\ threads'[t].st = "panic" => threads'[t].idx = alone.idx]_vars_all

\* Two threads have finished their evaluate of a shared binary node with
\* different results.
C17_Witness ==
    /\ IsBinary(tree)
    /\ \A t \in Threads : threads[t].st = "ok"
    /\ threads[1].val # threads[2].val

(***************************************************************************)
(* Variable::new and Variable::initialize.  A variable is                  *)
(* [name, index, found]: index -1 is None, and found tells which arm of    *)
(* the match in initialize produced the index.  existing_variables is the  *)
(* caller's Vec<String>, positions counted from 0.                         *)
(***************************************************************************)
Names == {"w", "x", "y", "z"}

\* A position() that finds the last entry equal to the name.
position_Last(list, name) ==
    LET S == {k \in 1..Len(list) : list[k] = name}
    IN  IF S = {} THEN -1 ELSE (CHOOSE k \in S : \A j \in S : k >= j) - 1

\* existing_variables.iter().position(|v| v == &self.name): -1 for None.
position(list, name) ==
    LET S == {k \in 1..Len(list) : list[k] = name}
    IN  IF S = {} THEN -1 ELSE (CHOOSE k \in S : \A j \in S : k <= j) - 1

\* Variable::new.
NewVariable(name) == [name |-> name, index |-> -1, found |-> FALSE]

\* An initialize that pushes the name whether or not it found it.
initialize_AlwaysPush(self, list) ==
    LET p == position(list, self.name)
    IN  [variable |-> [name |-> self.name,
                       index |-> IF p # -1 THEN p ELSE Len(list),
                       found |-> p # -1],
         existing_variables |-> Append(list, self.name)]

\* Variable::initialize: the variable returned and the list afterwards.
initialize(self, list) ==
    LET p == position(list, self.name)
    IN  IF p # -1
        THEN [variable |-> [name |-> self.name, index |-> p, found |-> TRUE],
              existing_variables |-> list]
        ELSE LET pushed == Append(list, self.name)
             IN  [variable |-> [name |-> self.name, index |-> Len(pushed) - 1,
                                found |-> FALSE],
                  existing_variables |-> pushed]

\* Variable::is_initialized.
is_initialized(self) == self.index # -1

\* The lists a caller may start with.
StartLists == UNION {[1..n -> Names] : n \in 0..MaxExisting}

InitNames ==
    /\ existing_variables \in StartLists
    /\ variable = NoVariable
    /\ handed = {}
    /\ tree = Constant(Fin(0))
    /\ JitIdle /\ BatchIdle /\ BuildIdle /\ SharedIdle /\ SessionIdle /\ RestIdle

\* let variable = Variable::new(name).
New ==
    /\ \E name \in Names : variable' = NewVariable(name)
    /\ UNCHANGED <<tree, existing_variables, handed, jitVars, batchVars, built, threads,
                   session, restVars>>

\* let variable = variable.initialize(&mut existing_variables).
Initialize ==
    /\ variable # NoVariable
    /\ LET r == initialize(variable, existing_variables)
       IN  /\ variable' = r.variable
           /\ existing_variables' = r.existing_variables
           /\ handed' = handed \cup {<<r.variable.name, r.variable.index>>}
    /\ UNCHANGED <<tree, jitVars, batchVars, built, threads, session, restVars>>

NextNames == New \/ Initialize

SpecNames == InitNames /\ [][NextNames]_vars_all

(***************************************************************************)
(* C18.  An initialize call gives a variable whose name is already in the  *)
(* list the index of the name's first position, and a variable whose name  *)
(* is not in the list the next index, the list's length before the call;   *)
(* afterwards is_initialized() is true and the name is unchanged.          *)
(***************************************************************************)
C18_InitializeAssignsIndex ==
    [][Initialize =>
         LET occurs == {k \in 1..Len(existing_variables) :
                            existing_variables[k] = variable.name}
         IN  /\ occurs # {} =>
                  /\ variable'.index + 1 \in occurs
                  /\ \A k \in occurs : variable'.index + 1 <= k
             /\ occurs = {} => variable'.index = Len(existing_variables)
             /\ is_initialized(variable')
             /\ variable'.name = variable.name]_vars_all

\* A variable has been given the first of two positions of its name, behind
\* another name.
C18_Witness ==
    /\ variable.found /\ variable.index = 1
    /\ \E k \in 1..Len(existing_variables) :
         k > variable.index + 1 /\ existing_variables[k] = variable.name

(***************************************************************************)
(* A compilation, one statement of compile_*d at a time.  session is the   *)
(* driver's local JITHelper: state is how far the driver has come with it, *)
(* b the builder's entry block and v the value lowered for the root.       *)
(*   "Fresh"      JITHelper::new has returned;                             *)
(*   "Building"   function_builder() has handed out the builder;           *)
(*   "Built"      the lowering, return_ and builder.finalize() are done;   *)
(*   "Finalized"  jit_helper.finalize() has returned the code pointer;     *)
(*   "Dropped"    the driver has returned or unwound, dropping the local.  *)
(***************************************************************************)
Shapes == {"1d", "2d", "3d", "nd"}

InitSession ==
    /\ tree \in Trees
    /\ session = NoSession
    /\ JitIdle /\ BatchIdle /\ BuildIdle /\ SharedIdle /\ NamesIdle /\ RestIdle

\* let mut jit_helper = JITHelper::new(isa, parameters, return_type).
SessionNew ==
    /\ session.state = "none"
    /\ \E shape \in Shapes :
         session' = [state |-> "Fresh", shape |-> shape, b |-> NewBuilder(0), v |-> 0]
    /\ UNCHANGED <<tree, jitVars, batchVars, built, threads, nameVars, restVars>>

\* let mut builder = jit_helper.function_builder(), and the entry block with
\* the function's parameters.
SessionFunctionBuilder ==
    /\ session.state = "Fresh"
    /\ session' = [session EXCEPT !.state = "Building",
                                  !.b = NewBuilder(NumParams(session.shape))]
    /\ UNCHANGED <<tree, jitVars, batchVars, built, threads, nameVars, restVars>>

\* self.build_jit_*(..), builder.ins().return_(..), builder.finalize(); a
\* panic of the lowering unwinds out of the driver.
SessionBuild ==
    /\ session.state = "Building"
    /\ LET r == BuildJit(session.shape, tree, session.b)
       IN  IF r.st = "panic"
           THEN /\ session' = [session EXCEPT !.state = "Dropped"]
                /\ handle' = [st |-> "panic", shape |-> session.shape,
                              np |-> NumParams(session.shape), code |-> <<>>,
                              keepalive |-> FALSE]
                /\ module' = "dropped"
           ELSE /\ session' = [session EXCEPT
                                 !.state = "Built",
                                 !.b = [r.b EXCEPT !.insts =
                                          Append(@, Inst("return", r.v, 0, Fin(0), 0))],
                                 !.v = r.v]
                /\ UNCHANGED <<handle, module>>
    /\ UNCHANGED <<tree, treeAlive, vars, last, baseline, calls,
                   batchVars, built, threads, nameVars, restVars>>

\* A finalize() that does not wait for the builder to be done.
SessionFinalize_Early ==
    /\ session.state \in {"Building", "Built"}
    /\ session' = [session EXCEPT !.state = "Finalized"]
    /\ UNCHANGED <<tree, jitVars, batchVars, built, threads, nameVars, restVars>>

\* let code = jit_helper.finalize().
SessionFinalize ==
    /\ session.state = "Built"
    /\ session' = [session EXCEPT !.state = "Finalized"]
    /\ UNCHANGED <<tree, jitVars, batchVars, built, threads, nameVars, restVars>>

\* Ok(compiled_function): the pointer goes to the caller, the JITHelper out
\* of scope.
SessionReturn ==
    /\ session.state = "Finalized"
    /\ session' = [session EXCEPT !.state = "Dropped"]
    /\ handle' = [st |-> "ok", shape |-> session.shape, np |-> NumParams(session.shape),
                  code |-> session.b.insts, keepalive |-> FALSE]
    /\ module' = "dropped"
    /\ UNCHANGED <<tree, treeAlive, vars, last, baseline, calls,
                   batchVars, built, threads, nameVars, restVars>>

NextSession ==
    \/ SessionNew
    \/ SessionFunctionBuilder
    \/ SessionBuild
    \/ SessionFinalize
    \/ SessionReturn

SpecSession == InitSession /\ [][NextSession]_vars_all

\* The states of a session in their order, and the steps between them.
SessionOrder == <<"none", "Fresh", "Building", "Built", "Finalized", "Dropped">>
SessionRank(st) == CHOOSE k \in 1..Len(SessionOrder) : SessionOrder[k] = st

(***************************************************************************)
(* C19.  A JIT session moves through Fresh, Building, Built and Codegen    *)
(* Finalized in exactly that order, each at most once: finalize is reached *)
(* only from Built, the pointer is handed out only from Finalized, and     *)
(* after finalize the session is only dropped; a session that leaves the   *)
(* order does so by being dropped while Building.  The function handed out *)
(* is the one compile_*d returns.                                          *)
(***************************************************************************)
C19_SessionIsLinear ==
    [][/\ session'.state # session.state =>
            \/ SessionRank(session'.state) = SessionRank(session.state) + 1
            \/ (session.state = "Building" /\ session'.state = "Dropped")
       /\ (handle' # handle /\ handle'.st = "ok") =>
            (session.state = "Finalized" /\ handle' = Compile(session.shape, tree))
       /\ (handle' # handle /\ handle'.st = "panic") =>
            (session.state = "Building" /\ handle' = Compile(session.shape, tree))]_vars_all

\* finalize() has returned the pointer of a function with an operation.
C19_Witness ==
    /\ session.state = "Finalized"
    /\ ~IsLeaf(tree)
    /\ Len(session.b.insts) > 1

\* What each emitted instruction is, without its operands.
Emitted(i) == [op |-> i.op, imm |-> i.imm, off |-> i.off]

\* The instructions of a post-order of the tree, left subtree first: nothing
\* for a variable of a fixed shape (it is a block parameter), a load for a
\* variable of the N-D shape.
RECURSIVE PostOrder(_, _)
PostOrder(shape, e) ==
    IF e.tag = "Constant" THEN <<[op |-> "f64const", imm |-> e.val, off |-> 0]>>
    ELSE IF e.tag = "Variable"
    THEN IF shape = "nd" THEN <<[op |-> "load", imm |-> Fin(0), off |-> OffsetI32(e.idx)]>>
         ELSE <<>>
    ELSE IF IsUnary(e)
    THEN PostOrder(shape, inner(e))
         \o <<[op |-> IF e.tag = "Negate" THEN "fneg" ELSE "sqrt", imm |-> Fin(0), off |-> 0]>>
    ELSE PostOrder(shape, left(e)) \o PostOrder(shape, right(e))
         \o <<[op |-> CASE e.tag = "Add" -> "fadd" [] e.tag = "Subtract" -> "fsub"
                        [] e.tag = "Multiply" -> "fmul" [] e.tag = "Frac" -> "fdiv",
               imm |-> Fin(0), off |-> 0]>>

\* The values an instruction uses.
Uses(i) ==
    CASE i.op \in {"fadd", "fsub", "fmul", "fdiv"} -> {i.a, i.b}
      [] i.op \in {"fneg", "sqrt", "load", "return"} -> {i.a}
      [] OTHER -> {}

(***************************************************************************)
(* C20.  The instructions emitted into the entry block are a post-order of *)
(* the tree: every instruction uses block parameters or results of earlier *)
(* instructions only, the instructions of a binary node's left subtree     *)
(* come before those of its right subtree, and exactly one return is       *)
(* emitted, last, returning the value lowered for the root.                *)
(***************************************************************************)
C20_EmissionIsPostOrder ==
    handle.st = "ok"
        => LET code == handle.code
               n == Len(code)
           IN  /\ \A k \in 1..n : \A u \in Uses(code[k]) : u >= 0 /\ u < handle.np + k - 1
               /\ [k \in 1..(n - 1) |-> Emitted(code[k])] = PostOrder(handle.shape, tree)
               /\ code[n].op = "return"
               /\ \A k \in 1..(n - 1) : code[k].op # "return"
               /\ code[n].a = IF tree.tag = "Variable" /\ handle.shape # "nd"
                              THEN (IF handle.shape = "1d" THEN 0 ELSE tree.idx)
                              ELSE handle.np + n - 2

\* A function has been compiled from a binary node whose two subtrees emit
\* different instructions.
C20_Witness ==
    /\ handle.st = "ok"
    /\ IsBinary(tree)
    /\ PostOrder(handle.shape, left(tree)) # PostOrder(handle.shape, right(tree))
    /\ ~IsLeaf(right(tree))

(***************************************************************************)
(* C21.  After evaluate_vec's checks (the list of rows is not empty, the   *)
(* rows have one width) no per-row evaluate fails or aborts, rows narrower *)
(* than the tree's arity included.  Violated: the checks never compare the *)
(* width with the arity, and LeafNode::evaluate indexes variables[idx]     *)
(* without a bound check of its own, so it panics on such a row.           *)
(***************************************************************************)
C21_RowsAreSafeAfterChecks ==
    (batch.st # "none" /\ EqualWidths)
        => /\ batch.st # "panic"
           /\ \A k \in 1..Len(rows) : evaluate(tree, rows[k]).st # "panic"

(***************************************************************************)
(* The binding shim: a PyExpr holds the expression (inner) and the cached  *)
(* N-D function (compiled_fn, NoHandle for None); compiles counts the      *)
(* compile_nd calls that have returned for this object.  An evaluate_vec   *)
(* call is the record run:                                                 *)
(*   state     "running" while the rows are processed, "done" when the     *)
(*             output has been returned, "panic" when compile_nd panicked, *)
(*             "aborted" when a call of the function faulted;              *)
(*   ncalls    the evaluate_vec calls made on this PyExpr;                 *)
(*   parallel, rows, cols, behind   the arguments: the flag, the dims of   *)
(*             the array and what lies behind the array in memory;         *)
(*   task, val for each row, where its closure stands ("todo", "called",   *)
(*             "done") and the value its call of the function returned;    *)
(*   output    the output vector, each element with the rows whose         *)
(*             closures wrote it;  order  the rows in the order written.   *)
(***************************************************************************)
\* The binding shim builds trees of at most MaxPyDepth levels.
MaxPyDepth == 2
\* The input array has at most MaxCols columns (and MaxRows rows).
MaxCols == 2

Uninit == [k |-> "uninit", s |-> 1, m |-> 0, t |-> <<>>]

\* PyExpr::constant, PyExpr::variable.
PyConstant(value) == [inner |-> Constant(value), compiled_fn |-> NoHandle, compiles |-> 0]
PyVariable(index) == [inner |-> Variable(index), compiled_fn |-> NoHandle, compiles |-> 0]

\* A unary constructor that hands the child's cached function on.
PyUnary_KeepsCompiled(op, child) ==
    [inner |-> Unary(op, child.inner), compiled_fn |-> child.compiled_fn,
     compiles |-> child.compiles]

\* PyExpr::negate, sqrt, sin, cos, exp, ln.
PyUnary(op, child) ==
    [inner |-> Unary(op, child.inner), compiled_fn |-> NoHandle, compiles |-> 0]

\* PyExpr::add, subtract, multiply, frac, pow, log: the first argument is
\* the first child.
PyBinary(op, first, second) ==
    [inner |-> Binary(op, first.inner, second.inner), compiled_fn |-> NoHandle,
     compiles |-> 0]

\* The element (i, j) of the input array: the rows alternate between the
\* two patterns of input vectors.
ArrayCell(i, j) == Element(IF i % 2 = 0 THEN "A" ELSE "B", j)

\* variables_array.slice(s![i, ..]).as_ptr(): the memory behind the pointer
\* to row i of a contiguous rows x cols array, namely the row, the rows
\* after it, and what lies behind the array.
RowSlice(r, i) ==
    [len |-> r.cols,
     at |-> [j \in VarIdx |->
               IF j < r.cols THEN ArrayCell(i, j)
               ELSE IF j <= MaxVarIdx /\ i * r.cols + j < r.rows * r.cols
               THEN ArrayCell((i * r.cols + j) \div r.cols, (i * r.cols + j) % r.cols)
               ELSE r.behind]]

\* A closure that writes the first element nobody has written yet.
WriteOutput_Push(output, i, value) ==
    LET k == CHOOSE n \in 1..Len(output) :
                 /\ output[n].writers = <<>>
                 /\ \A j \in 1..(n - 1) : output[j].writers # <<>>
    IN  [output EXCEPT ![k] = [val |-> value, writers |-> Append(@.writers, i)]]

\* *value = ..., value being the element i of output (enumerate).
WriteOutput(output, i, value) ==
    [output EXCEPT ![i + 1] = [val |-> value, writers |-> Append(@.writers, i)]]

\* The model's PyExprs, arrays and operands.
PyLeaves == {PyConstant(Fin(2)), PyVariable(1)}
PyOperands == {PyVariable(0)}

InitPy ==
    /\ pyexpr \in PyLeaves
    /\ run = NoRun
    /\ tree = NoPyExpr.inner
    /\ JitIdle /\ BatchIdle /\ BuildIdle /\ SharedIdle /\ NamesIdle /\ SessionIdle
    /\ HostIdle /\ TaggedIdle /\ ScalarIdle

\* A constructor is not called while evaluate_vec holds the &mut PyExpr.
PyFree == run.state # "running"

\* pyexpr = PyExpr.op(pyexpr).
PyNewUnary ==
    /\ PyFree /\ Depth(pyexpr.inner) < MaxPyDepth
    /\ \E op \in UnaryTags : pyexpr' = PyUnary(op, pyexpr)
    /\ run' = NoRun
    /\ UNCHANGED <<tree, jitVars, batchVars, built, threads, nameVars, session,
                   host, tagged, scalar>>

\* pyexpr = PyExpr.op(pyexpr, other).
PyNewBinary ==
    /\ PyFree /\ Depth(pyexpr.inner) < MaxPyDepth
    /\ \E op \in BinaryTags, other \in PyOperands : pyexpr' = PyBinary(op, pyexpr, other)
    /\ run' = NoRun
    /\ UNCHANGED <<tree, jitVars, batchVars, built, threads, nameVars, session,
                   host, tagged, scalar>>

\* pyexpr.evaluate_vec(variables, parallel) up to the loop over the rows:
\* the cached function or compile_nd().unwrap(), the dims, the output vector.
PyEvaluateVec ==
    /\ PyFree /\ run.ncalls < MaxCalls
    /\ \E parallel \in BOOLEAN, nrows \in 0..MaxRows, ncols \in 0..MaxCols,
          behind \in {Unmapped, Fin(-7)} :
         LET cached == pyexpr.compiled_fn # NoHandle
             f == IF cached THEN pyexpr.compiled_fn ELSE Compile("nd", pyexpr.inner)
         IN  IF f.st = "panic"
             THEN /\ run' = [NoRun EXCEPT !.state = "panic", !.ncalls = run.ncalls + 1]
                  /\ pyexpr' = pyexpr
             ELSE /\ pyexpr' = IF cached THEN pyexpr
                               ELSE [pyexpr EXCEPT !.compiled_fn = f,
                                                   !.compiles = @ + 1]
                  /\ run' = [state |-> "running", ncalls |-> run.ncalls + 1,
                             parallel |-> parallel, rows |-> nrows, cols |-> ncols,
                             behind |-> behind,
                             task |-> [k \in 1..nrows |-> "todo"],
                             val |-> [k \in 1..nrows |-> Uninit],
                             output |-> [k \in 1..nrows |->
                                           [val |-> Uninit, writers |-> <<>>]],
                             order |-> <<>>]
    /\ UNCHANGED <<tree, jitVars, batchVars, built, threads, nameVars, session,
                   host, tagged, scalar>>

\* The closure of row i may run: any row with par_iter_mut, the rows in
\* order with iter_mut.
MayRun(i) ==
    /\ run.state = "running"
    /\ run.parallel \/ \A j \in 0..(i - 1) : run.task[j + 1] = "done"

\* The closure of row i calls f(row.as_ptr(), cols).
PyTaskCall ==
    /\ \E i \in 0..(run.rows - 1) :
         /\ MayRun(i) /\ run.task[i + 1] = "todo"
         /\ LET r == CallFn(pyexpr.compiled_fn, RowSlice(run, i), run.cols)
            IN  run' = IF r.st = "fault" THEN [run EXCEPT !.state = "aborted"]
                       ELSE [run EXCEPT !.task[i + 1] = "called", !.val[i + 1] = r.val]
    /\ UNCHANGED <<pyexpr, tree, jitVars, batchVars, built, threads, nameVars, session,
                   host, tagged, scalar>>

\* The closure of row i stores the value: *value = ...
PyTaskWrite ==
    /\ \E i \in 0..(run.rows - 1) :
         /\ run.state = "running" /\ run.task[i + 1] = "called"
         /\ run' = [run EXCEPT !.task[i + 1] = "done",
                               !.output = WriteOutput(@, i, run.val[i + 1]),
                               !.order = Append(@, i)]
    /\ UNCHANGED <<pyexpr, tree, jitVars, batchVars, built, threads, nameVars, session,
                   host, tagged, scalar>>

\* PyArray1::from_vec(py, output): evaluate_vec returns the output.
PyReturn ==
    /\ run.state = "running"
    /\ \A k \in 1..run.rows : run.task[k] = "done"
    /\ run' = [run EXCEPT !.state = "done"]
    /\ UNCHANGED <<pyexpr, tree, jitVars, batchVars, built, threads, nameVars, session,
                   host, tagged, scalar>>

NextPy == PyNewUnary \/ PyNewBinary \/ PyEvaluateVec \/ PyTaskCall \/ PyTaskWrite \/ PyReturn

SpecPy == InitPy /\ [][NextPy]_vars_all

(***************************************************************************)
(* C22.  Every call evaluate_vec makes to the compiled N-D function passes *)
(* a length cols >= num_variables(inner).  Violated: cols is dims[1] of    *)
(* the caller's array and is never compared with the arity.                *)
(***************************************************************************)
C22_ColsCoverTheArity ==
    (run.state \in {"running", "done", "aborted"}
       /\ (run.state = "aborted" \/ \E k \in 1..run.rows : run.task[k] # "todo"))
        => run.cols >= num_variables(pyexpr.inner)

\* The step is the start of an evaluate_vec call.
IsEvaluateVec == run'.ncalls = run.ncalls + 1

(***************************************************************************)
(* C23.  A PyExpr is compiled at most once: a constructor yields           *)
(* compiled_fn = None; evaluate_vec calls compile_nd only while            *)
(* compiled_fn is None and stores what it returns; a later call leaves the *)
(* PyExpr as it is and calls the stored function; and a stored function is *)
(* always the compilation of the PyExpr's own inner expression.  (A        *)
(* compile_nd that panics returns nothing, and nothing is stored.)         *)
(***************************************************************************)
C23_CompiledAtMostOnce ==
    /\ [](/\ pyexpr.compiles <= 1
          /\ pyexpr.compiled_fn = NoHandle => pyexpr.compiles = 0
          /\ pyexpr.compiled_fn # NoHandle =>
               /\ pyexpr.compiles = 1
               /\ pyexpr.compiled_fn = Compile("nd", pyexpr.inner)
               /\ pyexpr.compiled_fn.st = "ok")
    /\ [][/\ (IsEvaluateVec /\ pyexpr.compiled_fn # NoHandle) => pyexpr' = pyexpr
          /\ (IsEvaluateVec /\ pyexpr.compiled_fn = NoHandle /\ run'.state # "panic")
               => /\ pyexpr'.compiled_fn = Compile("nd", pyexpr.inner)
                  /\ pyexpr'.compiles = 1
                  /\ pyexpr'.inner = pyexpr.inner
          /\ pyexpr'.inner # pyexpr.inner => pyexpr'.compiled_fn = NoHandle
          /\ ~IsEvaluateVec => (pyexpr' = pyexpr \/ pyexpr'.inner # pyexpr.inner)]_vars_all

\* A second evaluate_vec call on a compound PyExpr that loads a variable has
\* returned its output.
C23_Witness ==
    /\ run.state = "done" /\ run.ncalls = 2 /\ run.rows > 0
    /\ pyexpr.compiles = 1
    /\ ~IsLeaf(pyexpr.inner) /\ VariableIndices(pyexpr.inner) # {}

\* The compiled function applied to each row of the array, in row order.
FunctionOfRows ==
    [k \in 1..run.rows |-> CallFn(pyexpr.compiled_fn, RowSlice(run, k - 1), run.cols)]

(***************************************************************************)
(* C24.  Whatever the order in which the closures of the rows run, with    *)
(* parallel = true as with parallel = false: the output has one element    *)
(* per row, element i is written at most once and only by the closure of   *)
(* row i, what is written is the compiled function applied to row i, and   *)
(* the output evaluate_vec returns has every element written; the call     *)
(* dies only when the function faults on some row.                         *)
(***************************************************************************)
C24_ParallelIsSequential ==
    run.state \in {"running", "done", "aborted"}
        => /\ Len(run.output) = run.rows
           /\ \A k \in 1..run.rows :
                /\ run.output[k].writers \in {<<>>, <<k - 1>>}
                /\ run.output[k].writers # <<>> =>
                     /\ FunctionOfRows[k].st = "ok"
                     /\ run.output[k].val = FunctionOfRows[k].val
           /\ run.state = "done" =>
                \A k \in 1..run.rows : run.output[k].writers = <<k - 1>>
           /\ run.state = "aborted" =>
                \E k \in 1..run.rows : FunctionOfRows[k].st = "fault"

\* A parallel evaluate_vec call has returned the output of two rows that
\* give different values, the second row written first.
C24_Witness ==
    /\ run.state = "done" /\ run.parallel
    /\ run.rows = 2 /\ run.order = <<1, 0>>
    /\ run.cols >= num_variables(pyexpr.inner)
    /\ run.output[1].val # run.output[2].val

(***************************************************************************)
(* The list of names built up from nothing: the caller starts with an      *)
(* empty Vec<String> and hands it to every initialize call.                *)
(***************************************************************************)
InitRegistry ==
    /\ existing_variables = <<>>
    /\ variable = NoVariable
    /\ handed = {}
    /\ tree = Constant(Fin(0))
    /\ JitIdle /\ BatchIdle /\ BuildIdle /\ SharedIdle /\ SessionIdle /\ RestIdle

SpecRegistry == InitRegistry /\ [][NextNames]_vars_all

\* The entries of a list.
Entries(list) == {list[k] : k \in 1..Len(list)}

(***************************************************************************)
(* C25.  An initialize call with a name that is in the list leaves the     *)
(* list as it is, and one with a new name appends that name and nothing    *)
(* else; so, from the empty list on, the list never holds a name twice,    *)
(* the indices handed out are exactly 0 .. len - 1, and two variables have *)
(* the same index exactly when they have the same name.                    *)
(***************************************************************************)
C25_ListOnlyGrowsByNewNames ==
    /\ [][Initialize =>
            /\ variable.name \in Entries(existing_variables)
                 => existing_variables' = existing_variables
            /\ variable.name \notin Entries(existing_variables)
                 => /\ Len(existing_variables') = Len(existing_variables) + 1
                    /\ existing_variables'[Len(existing_variables')] = variable.name
                    /\ \A k \in 1..Len(existing_variables) :
                         existing_variables'[k] = existing_variables[k]]_vars_all
    /\ [](/\ Cardinality(Entries(existing_variables)) = Len(existing_variables)
          /\ {p[2] : p \in handed} = 0..(Len(existing_variables) - 1)
          /\ \A p, q \in handed : (p[2] = q[2]) <=> (p[1] = q[1]))

\* Three names have been given their indices, and a variable of the first
\* name has been initialized again.
C25_Witness ==
    /\ Len(existing_variables) = 3
    /\ Cardinality(handed) = 3
    /\ variable.found /\ variable.index = 0

\* The value is a finite f64.
IsFinite(x) == x.k \in {"fin", "sym"}

(***************************************************************************)
(* C26.  Negating twice changes nothing: when the vector holds every       *)
(* variable of the tree t and evaluate(t, v) has returned a finite value,  *)
(* evaluate(neg(neg(t)), v) returns the same value (the same bits: unary   *)
(* minus flips the sign bit only).                                         *)
(***************************************************************************)
C26_DoubleNegationIsIdentity ==
    (last.op = "evaluate" /\ last.st = "ok" /\ ~last.dropped
       /\ Arity(tree) <= vars.len /\ IsFinite(last.val))
        => /\ evaluate(neg(neg(tree)), vars).st = "ok"
           /\ evaluate(neg(neg(tree)), vars).val = last.val
           /\ evaluate(neg(neg(tree)), vars).val = evaluate(tree, vars).val

\* evaluate has returned a positive finite value read from a variable of a
\* compound tree.
C26_Witness ==
    /\ last.op = "evaluate" /\ last.st = "ok" /\ ~last.dropped
    /\ Arity(tree) <= vars.len
    /\ last.val.k = "fin" /\ last.val.s = 1 /\ last.val.m > 0
    /\ ~IsLeaf(tree) /\ VariableIndices(tree) # {}

(***************************************************************************)
(* C27.  num_variables(t) is the number of distinct variable indices that  *)
(* occur in t.  Violated: it is the largest index plus one, which is more  *)
(* than the number of distinct indices as soon as an index below the       *)
(* largest does not occur.                                                 *)
(***************************************************************************)
C27_ArityCountsDistinctVariables ==
    (last.op = "num_variables" /\ ~last.dropped)
        => last.idx = Cardinality(VariableIndices(tree))

(***************************************************************************)
(* compile_nd on a host: host.isa is the pointer width of the host's ISA   *)
(* in bits, host.sig and host.ret the parameter and return types of the    *)
(* signature JITHelper::new declares, host.code the lowered function.      *)
(***************************************************************************)
PointerWidths == {32, 64}

\* The cranelift integer type of a width, and the width of a type.
IntType(bits) == CASE bits = 16 -> "I16" [] bits = 32 -> "I32" [] bits = 64 -> "I64"
TypeBits(type) == CASE type = "I16" -> 16 [] type = "I32" -> 32 [] type = "I64" -> 64
                    [] type = "F64" -> 64

\* InstructionSetArchitecture::pointer_type.
pointer_type(isa) == IntType(isa)

\* let parameters = vec![isa.pointer_type(), types::I64];
NdParameters(isa) == <<pointer_type(isa), "I64">>

InitHost ==
    /\ tree \in Trees
    /\ host \in {[NoHost EXCEPT !.isa = w] : w \in PointerWidths}
    /\ JitIdle /\ BatchIdle /\ BuildIdle /\ SharedIdle /\ NamesIdle /\ SessionIdle
    /\ BindingIdle /\ TaggedIdle /\ ScalarIdle

\* tree.compile_nd() on the host.
HostCompileNd ==
    /\ host.st = "none"
    /\ LET f == Compile("nd", tree)
       IN  host' = [host EXCEPT !.st = f.st, !.sig = NdParameters(host.isa),
                                !.ret = "F64", !.code = f.code]
    /\ UNCHANGED <<tree, jitVars, batchVars, built, threads, nameVars, session,
                   bindingVars, tagged, scalar>>

NextHost == HostCompileNd

SpecHost == InitHost /\ [][NextHost]_vars_all

\* The element index that the byte offset 8 * i addresses when the offset is
\* computed in integers of the given width.
IndexInWidth(i, bits) == IF bits = 32 THEN i % BigIdx ELSE i

(***************************************************************************)
(* C28.  On every host the declared signature of compile_nd has the ISA's  *)
(* pointer type first and an integer type of the pointer's width as the    *)
(* length, and the offsets of the N-D loads are computed in that width.    *)
(* Violated: the length is types::I64 whatever the ISA, and the offsets    *)
(* are cut to i32 whatever the ISA.                                        *)
(***************************************************************************)
C28_NdUsesNativeWidth ==
    host.st # "none"
        => /\ host.sig[1] = pointer_type(host.isa)
           /\ TypeBits(host.sig[2]) = host.isa
           /\ host.st = "ok" =>
                {host.code[k].off \div 8 :
                    k \in {n \in 1..Len(host.code) : host.code[n].op = "load"}}
                  = {IndexInWidth(i, host.isa) : i \in VariableIndices(tree)}

(***************************************************************************)
(* Expressions tagged Initialized or Uninitialized.  An Expr is the record *)
(* [init, node, leaf, kids]: init says which variant of Expr it is, node   *)
(* the operator (or Constant / Variable), leaf what a leaf holds, kids the *)
(* operand Exprs.  An UninitializedExpr, which the leaf constructors and   *)
(* the operators of UninitializedExpr return, is the record without init.  *)
(* tagged is the expression built so far, built the last function applied  *)
(* and its operands.                                                       *)
(***************************************************************************)
\* constant(value), variable(name).
constant(value) == [node |-> "Constant", leaf |-> value, kids |-> <<>>]
variable_named(name) == [node |-> "Variable", leaf |-> name, kids |-> <<>>]

\* UninitializedExpr::to_expr, and the match of a caller that takes the
\* UninitializedExpr out of an Expr::Uninitialized.
UninitializedToExpr(u) ==
    [init |-> FALSE, node |-> u.node, leaf |-> u.leaf, kids |-> u.kids]
UninitializedOf(e) == [node |-> e.node, leaf |-> e.leaf, kids |-> e.kids]

\* InitializedLeaf::to_expr.
InitializedLeafToExpr(node, leaf) ==
    [init |-> TRUE, node |-> node, leaf |-> leaf, kids |-> <<>>]

\* ExpressionNode::to_expr of a UnaryNode or a BinaryNode.
to_expr(node, kids, initialized) ==
    [init |-> initialized, node |-> node, leaf |-> "", kids |-> kids]

\* sqrt, sin, cos, exp, ln of functions.rs.
UnaryFunction(op, e) ==
    IF e.init THEN to_expr(op, <<e>>, TRUE) ELSE to_expr(op, <<e>>, FALSE)

\* A pow / log that tags the result Initialized when either operand is.
BinaryFunction_EitherInitialized(op, a, b) ==
    to_expr(op, <<a, b>>, a.init \/ b.init)

\* pow, log of functions.rs.
BinaryFunction(op, a, b) ==
    CASE a.init /\ b.init -> to_expr(op, <<a, b>>, TRUE)
      [] ~a.init /\ b.init -> to_expr(op, <<a, b>>, FALSE)
      [] a.init /\ ~b.init -> to_expr(op, <<a, b>>, FALSE)
      [] ~a.init /\ ~b.init -> to_expr(op, <<a, b>>, FALSE)

\* impl Neg, and impl Add / Sub / Mul / Div, for UninitializedExpr.
UninitializedNeg(self) ==
    [node |-> "Negate", leaf |-> "", kids |-> <<UninitializedToExpr(self)>>]
UninitializedBinary(op, self, other) ==
    [node |-> op, leaf |-> "",
     kids |-> <<UninitializedToExpr(self), UninitializedToExpr(other)>>]

RECURSIVE TaggedDepth(_)
TaggedDepth(e) ==
    IF e.kids = <<>> THEN 1
    ELSE 1 + Max(TaggedDepth(e.kids[1]), TaggedDepth(e.kids[Len(e.kids)]))

\* The leaves and the other operands of the model.
InitializedLeaves ==
    {InitializedLeafToExpr("Constant", Fin(2)), InitializedLeafToExpr("Variable", 0)}
UninitializedLeaves == {constant(Fin(2)), variable_named("x")}
TaggedOperands ==
    {InitializedLeafToExpr("Variable", 1), UninitializedToExpr(variable_named("y"))}

InitTagged ==
    /\ tagged = NoExpr
    /\ built = NoBuilt
    /\ tree = Constant(Fin(0))
    /\ JitIdle /\ BatchIdle /\ SharedIdle /\ NamesIdle /\ SessionIdle
    /\ BindingIdle /\ HostIdle /\ ScalarIdle

\* tagged = constant(value).to_expr() or variable(name).to_expr().
TaggedLeaf ==
    /\ \E u \in UninitializedLeaves :
         /\ tagged' = UninitializedToExpr(u)
         /\ built' = [op |-> IF u.node = "Constant" THEN "constant" ELSE "variable",
                      a |-> NoExpr, b |-> NoExpr]
    /\ UNCHANGED <<tree, jitVars, batchVars, threads, nameVars, session,
                   bindingVars, host, scalar>>

\* tagged = an InitializedLeaf's to_expr().
TaggedInitializedLeaf ==
    /\ \E e \in InitializedLeaves :
         /\ tagged' = e
         /\ built' = [op |-> "InitializedLeaf", a |-> NoExpr, b |-> NoExpr]
    /\ UNCHANGED <<tree, jitVars, batchVars, threads, nameVars, session,
                   bindingVars, host, scalar>>

\* tagged = sqrt(tagged), sin(tagged), ...
TaggedUnaryFunction ==
    /\ tagged # NoExpr /\ TaggedDepth(tagged) < MaxDepth
    /\ \E op \in UnaryTags \ {"Negate"} :
         /\ tagged' = UnaryFunction(op, tagged)
         /\ built' = [op |-> op, a |-> tagged, b |-> NoExpr]
    /\ UNCHANGED <<tree, jitVars, batchVars, threads, nameVars, session,
                   bindingVars, host, scalar>>

\* tagged = pow(tagged, other), log(other, tagged), ...
TaggedBinaryFunction ==
    /\ tagged # NoExpr /\ TaggedDepth(tagged) < MaxDepth
    /\ \E op \in {"Pow", "Log"}, other \in TaggedOperands, swap \in BOOLEAN :
         LET a == IF swap THEN other ELSE tagged
             b == IF swap THEN tagged ELSE other
         IN  /\ tagged' = BinaryFunction(op, a, b)
             /\ built' = [op |-> op, a |-> a, b |-> b]
    /\ UNCHANGED <<tree, jitVars, batchVars, threads, nameVars, session,
                   bindingVars, host, scalar>>

\* tagged = (-u).to_expr(), u the UninitializedExpr in tagged.
TaggedNeg ==
    /\ tagged # NoExpr /\ ~tagged.init /\ TaggedDepth(tagged) < MaxDepth
    /\ tagged' = UninitializedToExpr(UninitializedNeg(UninitializedOf(tagged)))
    /\ built' = [op |-> "Negate", a |-> tagged, b |-> NoExpr]
    /\ UNCHANGED <<tree, jitVars, batchVars, threads, nameVars, session,
                   bindingVars, host, scalar>>

\* tagged = (u + v).to_expr(), (v - u).to_expr(), ...
TaggedOperator ==
    /\ tagged # NoExpr /\ ~tagged.init /\ TaggedDepth(tagged) < MaxDepth
    /\ \E op \in {"Add", "Subtract", "Multiply", "Frac"}, v \in UninitializedLeaves,
          swap \in BOOLEAN :
         LET u == UninitializedOf(tagged)
             a == IF swap THEN v ELSE u
             b == IF swap THEN u ELSE v
         IN  /\ tagged' = UninitializedToExpr(UninitializedBinary(op, a, b))
             /\ built' = [op |-> op, a |-> UninitializedToExpr(a),
                          b |-> UninitializedToExpr(b)]
    /\ UNCHANGED <<tree, jitVars, batchVars, threads, nameVars, session,
                   bindingVars, host, scalar>>

NextTagged ==
    \/ TaggedLeaf \/ TaggedInitializedLeaf \/ TaggedUnaryFunction
    \/ TaggedBinaryFunction \/ TaggedNeg \/ TaggedOperator

SpecTagged == InitTagged /\ [][NextTagged]_vars_all

\* Every node tagged Initialized has only Initialized operands.
RECURSIVE InitializedAllTheWayDown(_)
InitializedAllTheWayDown(e) ==
    /\ e.init => \A k \in 1..Len(e.kids) : e.kids[k].init
    /\ \A k \in 1..Len(e.kids) : InitializedAllTheWayDown(e.kids[k])

F64(v) == [ty |-> "F64", v |-> v]
F32(v) == [ty |-> "F32", v |-> v]

\* Rounding to f32 (24 bits of precision).
Round32(x) ==
    IF x.k = "sym" \/ (x.k = "fin" /\ x.m > 16777216) THEN Sym1("f32", x) ELSE x

\* f64::from(f32): every f32 is an f64.
F64From(x) == x

\* f64::abs: the sign bit is cleared.
FAbs(x) == [x EXCEPT !.s = 1]

\* left $op right, powf and log on two f64 (or, rounded, two f32) values.
ScalarOp2(op, l, r) ==
    CASE op = "add" -> FAdd(l, r)
      [] op = "sub" -> FSub(l, r)
      [] op = "mul" -> FMul(l, r)
      [] op = "div" -> FDiv(l, r)
      [] op = "powf" -> FPow(l, r)
      [] op = "log" -> FLog(l, r)

\* -value and the methods of one value.
ScalarOp1(op, x) ==
    CASE op = "neg" -> FNeg(x)
      [] op = "sqrt" -> FSqrt(x)
      [] op = "sin" -> FSin(x)
      [] op = "cos" -> FCos(x)
      [] op = "exp" -> FExp(x)
      [] op = "ln" -> FLn(x)
      [] op = "abs" -> FAbs(x)

\* Arms for operands of different variants that compute in f32.
ScalarBinary_NarrowsMixed(op, self, other) ==
    IF self.ty = "F64" /\ other.ty = "F64" THEN F64(ScalarOp2(op, self.v, other.v))
    ELSE F32(Round32(ScalarOp2(op, Round32(self.v), Round32(other.v))))

\* impl_arith_trait!(..) for +, -, *, /, and ScalarType::powf / log: the four
\* arms of the match on (self, other).
ScalarBinary(op, self, other) ==
    CASE self.ty = "F64" /\ other.ty = "F64" -> F64(ScalarOp2(op, self.v, other.v))
      [] self.ty = "F32" /\ other.ty = "F32" ->
           F32(Round32(ScalarOp2(op, self.v, other.v)))
      [] self.ty = "F32" /\ other.ty = "F64" ->
           F64(ScalarOp2(op, F64From(self.v), other.v))
      [] self.ty = "F64" /\ other.ty = "F32" ->
           F64(ScalarOp2(op, self.v, F64From(other.v)))

\* impl Neg, and ScalarType::sqrt / sin / cos / exp / ln / abs.
ScalarUnary(op, self) ==
    CASE self.ty = "F64" -> F64(ScalarOp1(op, self.v))
      [] self.ty = "F32" -> F32(Round32(ScalarOp1(op, self.v)))

\* The operators, the methods and the operands of the model.
ArithOps == {"add", "sub", "mul", "div"}
MethodOps2 == {"powf", "log"}
ScalarOps1 == {"neg", "sqrt", "sin", "cos", "exp", "ln", "abs"}
ScalarVals == {Fin(0), Fin(2), Fin(8), Fin(-3), Inf(1), NaN}
Scalars == {F64(v) : v \in ScalarVals} \cup {F32(v) : v \in ScalarVals}

InitScalar ==
    /\ scalar = NoScalar
    /\ tree = Constant(Fin(0))
    /\ JitIdle /\ BatchIdle /\ BuildIdle /\ SharedIdle /\ NamesIdle /\ SessionIdle
    /\ BindingIdle /\ HostIdle /\ TaggedIdle

\* a + b, a - b, a * b, a / b.
ScalarArith ==
    /\ \E op \in ArithOps, a \in Scalars, b \in Scalars :
         scalar' = [op |-> op, args |-> <<a, b>>, out |-> ScalarBinary(op, a, b)]
    /\ UNCHANGED <<tree, jitVars, batchVars, built, threads, nameVars, session,
                   bindingVars, host, tagged>>

\* a.powf(b), a.log(b).
ScalarMethod2 ==
    /\ \E op \in MethodOps2, a \in Scalars, b \in Scalars :
         scalar' = [op |-> op, args |-> <<a, b>>, out |-> ScalarBinary(op, a, b)]
    /\ UNCHANGED <<tree, jitVars, batchVars, built, threads, nameVars, session,
                   bindingVars, host, tagged>>

\* -a, a.sqrt(), a.sin(), a.cos(), a.exp(), a.ln(), a.abs().
ScalarMethod1 ==
    /\ \E op \in ScalarOps1, a \in Scalars :
         scalar' = [op |-> op, args |-> <<a>>, out |-> ScalarUnary(op, a)]
    /\ UNCHANGED <<tree, jitVars, batchVars, built, threads, nameVars, session,
                   bindingVars, host, tagged>>

NextScalar == ScalarArith \/ ScalarMethod2 \/ ScalarMethod1

SpecScalar == InitScalar /\ [][NextScalar]_vars_all

(***************************************************************************)
(* C30.  +, -, *, /, powf and log return the F32 variant exactly when both *)
(* operands are F32, and otherwise the F64 variant holding the f64 result  *)
(* on the operands as f64 values; neg, sqrt, sin, cos, exp, ln and abs     *)
(* return the variant of their operand.                                    *)
(***************************************************************************)
C30_ScalarVariantOfResult ==
    /\ scalar.op \in ArithOps \cup MethodOps2 =>
         LET a == scalar.args[1]
             b == scalar.args[2]
         IN  /\ scalar.out.ty = "F32" <=> (a.ty = "F32" /\ b.ty = "F32")
             /\ scalar.out.ty \in {"F32", "F64"}
             /\ scalar.out.ty = "F64" => scalar.out.v = ScalarOp2(scalar.op, a.v, b.v)
    /\ scalar.op \in ScalarOps1 => scalar.out.ty = scalar.args[1].ty

\* An operation on an F32 and an F64 operand has returned a value that is not
\* an f32.
C30_Witness ==
    /\ scalar.op \in ArithOps \cup MethodOps2
    /\ scalar.args[1].ty = "F32" /\ scalar.args[2].ty = "F64"
    /\ scalar.out.ty = "F64" /\ scalar.out.v.k = "sym"

====
